---- MODULE Spec2Model ----
(***************************************************************************)
(* Model of the selium hostcall pipeline: the operation runtime            *)
(* (create / poll / drop hooks over a future shared state held in the     *)
(* instance registry), the executor tasks the drivers are spawned on, the  *)
(* shared-memory arena, and the session capability model.                  *)
(*                                                                         *)
(* Byte vectors are sequences of small naturals, one element per encoded   *)
(* field; a guest error is the name of its GuestError variant.             *)
(***************************************************************************)
EXTENDS Integers, Sequences, FiniteSets, TLC

\* ------------------------------------------------------------------ bounds
MaxSlots == 2      \* slots one instance table hands out in a run
MaxClock == 1      \* host clock ticks in a run
ArenaBytes == 3    \* capacity of the shared-memory arena, scaled down
MaxCalls == 3      \* session hostcalls an instance makes in a run
MaxSingletonCalls == 2   \* singleton hostcalls an instance makes in a run
MaxShmCalls == 3   \* shared-memory hostcalls an instance makes in a run

SlotIds == 0 .. (MaxSlots - 1)
TaskIds == {1}                  \* guest task ids handed to poll
Capacities == {0, 32}          \* result_capacity values a guest passes
MaxCapacity == CHOOSE c \in Capacities : \A d \in Capacities : d <= c
SleepDurations == {1}          \* duration_ms of time::sleep requests
ShmSizes == {0, 4}             \* ShmAlloc.size values
ShmAligns == {2}               \* ShmAlloc.align values
UnixEpochMs == 7               \* wall clock reading at host clock 0, scaled down
SessionSlotIds == 0 .. (2 * MaxCalls + 3)   \* slot ids of the session runs, with room for one more call
SessionCaps == {"SessionLifecycle", "TimeRead"}   \* capabilities session requests name
Pubkeys == {1, 2}              \* pubkey values of session::create requests
MaxResources == 2              \* resources the host adds in a singleton run
DependencyIds == {3}           \* DependencyId values (one byte of the sixteen)
Callers == {1, 2}              \* host threads that call the singleton service
ShmSlotIds == 0 .. (2 * MaxShmCalls + 1)   \* slot ids of the shared-memory runs
AllocSizes == {0, 1, 2}       \* ShmAlloc.size values of the shared-memory runs
AllocAligns == {0, 1, 2, 3}    \* ShmAlloc.align values of the shared-memory runs
WritePayloads == {<<1>>, <<2, 2>>}   \* ShmWrite.bytes values

\* ------------------------------------------------------- hostcall catalogue
\* declare_hostcalls!: symbol -> required capability.
Catalogue ==
  [ session_create          |-> "SessionLifecycle",
    session_remove          |-> "SessionLifecycle",
    session_add_entitlement |-> "SessionLifecycle",
    session_rm_entitlement  |-> "SessionLifecycle",
    session_add_resource    |-> "SessionLifecycle",
    session_rm_resource     |-> "SessionLifecycle",
    singleton_register      |-> "SingletonRegistry",
    singleton_lookup        |-> "SingletonLookup",
    time_now                |-> "TimeRead",
    time_sleep              |-> "TimeRead",
    process_start           |-> "ProcessLifecycle",
    process_stop            |-> "ProcessLifecycle",
    shm_alloc               |-> "SharedMemory",
    shm_share               |-> "SharedMemory",
    shm_attach              |-> "SharedMemory",
    shm_detach              |-> "SharedMemory",
    shm_read                |-> "SharedMemory",
    shm_write               |-> "SharedMemory" ]

Capabilities ==
  { "SessionLifecycle", "ProcessLifecycle", "SingletonRegistry",
    "SingletonLookup", "TimeRead", "SharedMemory" }

\* ------------------------------------------------------------ guest errors
\* GuestResult<Vec<u8>>: Ok(bytes) or Err(variant).
Ok(b) == [ok |-> TRUE, bytes |-> b, err |-> ""]
Err(e) == [ok |-> FALSE, bytes |-> <<>>, err |-> e]

\* Display of GuestError (the #[error(...)] strings).
ErrorMessage(e) ==
  CASE e = "InvalidArgument"  -> "invalid argument"
    [] e = "InvalidUtf8"      -> "Invalid UTF-8 in guest input"
    [] e = "MemorySlice"      -> "Invalid guest memory slice"
    [] e = "NotFound"         -> "resource not found"
    [] e = "PermissionDenied" -> "permission denied"
    [] e = "Kernel"           -> "The kernel encountered an error. Please report this to your administrator."
    [] e = "Registry"         -> "The kernel Registry encountered an error. Please report this to your administrator."
    [] e = "StableIdExists"   -> "Stable identifier already exists"
    [] e = "WouldBlock"       -> "This function would block"
    [] OTHER                  -> "internal error"

\* ------------------------------------------------------------------- state
VARIABLES
  registry,     \* instance slot table and process-wide registry (see NewRegistry)
  arena,        \* SharedMemoryDriver: [next_offset, allocations]
  shared,       \* FutureSharedState of each future slot
  tasks,        \* executor task spawned for each future slot
  clock,        \* host monotonic clock
  mailbox,      \* guest poll mailbox of the instance
  life,         \* history: what has happened to each slot id as a future
  delivered,    \* history: polls that wrote the result of a slot into guest memory
  resolves,     \* history: calls of resolve on the state of a slot
  dropAt,       \* history: what the task of a slot was doing when the slot was dropped
  childOf,      \* history: the session whose session::create made the session of a slot
  single,       \* singleton service calls in progress on host threads, and their history
  host          \* the arena mutex, a host thread's write in progress, and their history

futVars ==
  << registry, arena, shared, tasks, clock, mailbox,
     life, delivered, resolves, dropAt >>

vars == << futVars, childOf, single, host >>

\* ---------------------------------------------------------------- registry
\* Registry and InstanceRegistry.  A slot table entry names a resource id; the
\* process-wide table holds kind and value; shared aliases name resource ids.
NoSlot == [kind |-> "None", rid |-> -1]
NoResource == [kind |-> "None", offset |-> 0, len |-> 0]
NoSession == [caps |-> {}, scoped |-> {}, pubkey |-> 0]

\* Registry::new and Registry::instance, with room for the ids in `ids`.
NewRegistry(ids) ==
  [ slots      |-> [s \in ids |-> NoSlot],
    nextSlot   |-> 0,
    resources  |-> [r \in ids |-> NoResource],
    sessions   |-> [r \in ids |-> NoSession],
    nextRid    |-> 0,
    aliases    |-> [a \in ids |-> -1],
    nextShared |-> 0,
    singletons |-> [d \in DependencyIds |-> -1] ]

\* InstanceRegistry::insert: add the resource process-wide, assign a slot.
insert(reg, kind, offset, len) ==
  [ reg EXCEPT
      !.slots[reg.nextSlot] = [kind |-> kind, rid |-> reg.nextRid],
      !.nextSlot = reg.nextSlot + 1,
      !.resources[reg.nextRid] = [kind |-> kind, offset |-> offset, len |-> len],
      !.nextRid = reg.nextRid + 1 ]

\* InstanceRegistry::entry(slot) -> Option<ResourceId>; -1 is None.
entry(reg, slot) ==
  IF slot \in DOMAIN reg.slots /\ reg.slots[slot].kind # "None"
  THEN reg.slots[slot].rid ELSE -1

\* Existing alias of a resource, or -1.
alias_of(reg, rid) ==
  IF \E a \in DOMAIN reg.aliases : reg.aliases[a] = rid
  THEN CHOOSE a \in DOMAIN reg.aliases : reg.aliases[a] = rid
  ELSE -1

\* share_handle that hands out the lowest alias not in use.
share_handle_recycles(reg, rid) ==
  IF alias_of(reg, rid) # -1 THEN reg
  ELSE LET free == {a \in DOMAIN reg.aliases : reg.aliases[a] = -1}
           low == CHOOSE a \in free : \A b \in free : a <= b
       IN [reg EXCEPT !.aliases[low] = rid,
                      !.nextShared = IF low < reg.nextShared THEN @ ELSE low + 1]

\* Registry::share_handle: mint (or return the existing) alias of a resource.
share_handle(reg, rid) ==
  IF alias_of(reg, rid) # -1 THEN reg
  ELSE [reg EXCEPT !.aliases[reg.nextShared] = rid, !.nextShared = reg.nextShared + 1]

\* Registry::resolve_shared(SharedId) -> Option<ResourceId>; -1 is None.
resolve_shared(reg, shared_id) ==
  IF shared_id \in DOMAIN reg.aliases THEN reg.aliases[shared_id] ELSE -1

\* Registry::metadata(ResourceId): Some exactly for a live resource.
metadata(reg, rid) == rid \in DOMAIN reg.resources /\ reg.resources[rid].kind # "None"

\* Registry::register_singleton: insert-if-absent; false if the key was present.
register_singleton(reg, id, rid) ==
  IF reg.singletons[id] # -1 THEN [inserted |-> FALSE, registry |-> reg]
  ELSE [inserted |-> TRUE, registry |-> [reg EXCEPT !.singletons[id] = rid]]

\* Registry::singleton(DependencyId) -> Option<ResourceId>; -1 is None.
singleton(reg, id) == reg.singletons[id]

\* Registry::remove of a host-owned resource under a slot: the entry and all
\* its aliases go; singleton mappings are left alone.
remove_resource(reg, slot) ==
  IF slot \in DOMAIN reg.slots /\ reg.slots[slot].kind = "Other"
  THEN [ reg EXCEPT
           !.slots[slot] = NoSlot,
           !.resources[reg.slots[slot].rid] = NoResource,
           !.aliases = [a \in DOMAIN reg.aliases |->
                          IF reg.aliases[a] = reg.slots[slot].rid THEN -1
                          ELSE reg.aliases[a]] ]
  ELSE reg

\* InstanceRegistry::insert_id: a new slot for a resource that is already live.
insert_id(reg, rid) ==
  [ reg EXCEPT
      !.slots[reg.nextSlot] = [kind |-> reg.resources[rid].kind, rid |-> rid],
      !.nextSlot = reg.nextSlot + 1 ]

\* Registry::reserve(None, kind): an id with its metadata and no value yet.
reserve(reg, kind) ==
  [ reg EXCEPT
      !.resources[reg.nextRid] = [kind |-> kind, offset |-> 0, len |-> 0],
      !.nextRid = reg.nextRid + 1 ]

\* Registry::discard: release a reserved id.
discard(reg, rid) == [reg EXCEPT !.resources[rid] = NoResource]

\* Registry::remove(ResourceHandle): consume the entry and all its aliases.
remove(reg, rid) ==
  [ reg EXCEPT
      !.resources[rid] = NoResource,
      !.aliases = [a \in DOMAIN reg.aliases |->
                     IF reg.aliases[a] = rid THEN -1 ELSE reg.aliases[a]] ]

\* InstanceRegistry::insert_future: a slot tagged Future.
insert_future(reg) == insert(reg, "Future", 0, 0)

\* InstanceRegistry::future_state(slot): is there a Future under the slot?
future_state(reg, slot) ==
  slot \in DOMAIN reg.slots /\ reg.slots[slot].kind = "Future"

\* InstanceRegistry::remove_future: drop the slot, the resource and its aliases.
remove_future(reg, slot) ==
  IF future_state(reg, slot)
  THEN [ reg EXCEPT
           !.slots[slot] = NoSlot,
           !.resources[reg.slots[slot].rid] = NoResource,
           !.aliases = [a \in DOMAIN reg.aliases |->
                          IF reg.aliases[a] = reg.slots[slot].rid THEN -1
                          ELSE reg.aliases[a]] ]
  ELSE reg

\* Is there a Session under the slot (InstanceRegistry::with::<Session, _>)?
is_session(reg, slot) ==
  slot \in DOMAIN reg.slots /\ reg.slots[slot].kind = "Session"

\* The session under a slot.
session_at(reg, slot) == reg.sessions[reg.slots[slot].rid]

\* InstanceRegistry::insert(session, None, ResourceType::Session)
insert_session(reg, S) ==
  [insert(reg, "Session", 0, 0) EXCEPT !.sessions[reg.nextRid] = S]

\* The session under a slot replaced by S (with::<Session, _> on &mut Session).
set_session(reg, slot, S) == [reg EXCEPT !.sessions[reg.slots[slot].rid] = S]

\* InstanceRegistry::remove::<Session>(slot)
remove_session(reg, slot) ==
  IF is_session(reg, slot)
  THEN [ reg EXCEPT
           !.slots[slot] = NoSlot,
           !.resources[reg.slots[slot].rid] = NoResource,
           !.sessions[reg.slots[slot].rid] = NoSession,
           !.aliases = [a \in DOMAIN reg.aliases |->
                          IF reg.aliases[a] = reg.slots[slot].rid THEN -1
                          ELSE reg.aliases[a]] ]
  ELSE reg

\* InstanceRegistry::grant_session_resource: add the child's resource id to the
\* parent's scoped set of cap; false when the parent is absent or does not hold cap.
grant_session_resource(reg, parent_slot, cap, child_slot) ==
  IF ~is_session(reg, parent_slot) \/ cap \notin session_at(reg, parent_slot).caps
  THEN [granted |-> FALSE, registry |-> reg]
  ELSE [ granted |-> TRUE,
         registry |->
           set_session(reg, parent_slot,
             [session_at(reg, parent_slot) EXCEPT
                !.scoped = @ \cup {<<cap, entry(reg, child_slot)>>}]) ]

\* InstanceRegistry::revoke_session_resource: the inverse; an absent parent is
\* an error.
revoke_session_resource(reg, parent_slot, cap, target_slot) ==
  IF ~is_session(reg, parent_slot)
  THEN [err |-> "NotFound", registry |-> reg]
  ELSE [ err |-> "",
         registry |->
           set_session(reg, parent_slot,
             [session_at(reg, parent_slot) EXCEPT
                !.scoped = @ \ {<<cap, target_slot>>}]) ]

\* ----------------------------------------------------------------- sessions
\* Session: the public key and the map capability -> set of resource ids, held
\* as the set of the capabilities in the map (caps) and the pairs
\* <<capability, id>> of the scoped sets (scoped).
scope(S, cap) == {p[2] : p \in {q \in S.scoped : q[1] = cap}}

\* Session::bootstrap: the listed capabilities, scope unrestricted.
bootstrap(entitlements, pubkey) ==
  [caps |-> entitlements, scoped |-> {}, pubkey |-> pubkey]

\* SessionLifecycleDriver::create: a new session with no entitlements.
Session_create(parent, pubkey) == [caps |-> {}, scoped |-> {}, pubkey |-> pubkey]

\* Session::authorise
authorise(S, cap, target) ==
  CASE cap \notin S.caps    -> FALSE
    [] scope(S, cap) = {}   -> TRUE
    [] OTHER                -> target \in scope(S, cap)

\* SessionLifecycleDriver::add_entitlement: a capability already held keeps its
\* scoped set.
add_entitlement(S, cap) == [S EXCEPT !.caps = @ \cup {cap}]

\* SessionLifecycleDriver::rm_entitlement: the capability leaves the map with
\* its scoped set.
rm_entitlement(S, cap) ==
  [S EXCEPT !.caps = @ \ {cap}, !.scoped = {q \in @ : q[1] # cap}]

\* SessionLifecycleDriver::add_resource: true iff the scoped set changed.
add_resource(S, cap, resource) ==
  IF cap \in S.caps /\ <<cap, resource>> \notin S.scoped
  THEN [changed |-> TRUE, session |-> [S EXCEPT !.scoped = @ \cup {<<cap, resource>>}]]
  ELSE [changed |-> FALSE, session |-> S]

\* SessionLifecycleDriver::rm_resource: true iff the scoped set changed.
rm_resource(S, cap, resource) ==
  IF <<cap, resource>> \in S.scoped
  THEN [changed |-> TRUE, session |-> [S EXCEPT !.scoped = @ \ {<<cap, resource>>}]]
  ELSE [changed |-> FALSE, session |-> S]

\* ------------------------------------------------------ future shared state
NoFuture == [st |-> "None", ok |-> TRUE, bytes |-> <<>>, err |-> "", waker |-> 0]

\* FutureSharedState::new
FutureSharedState_new ==
  [st |-> "Pending", ok |-> TRUE, bytes |-> <<>>, err |-> "", waker |-> 0]

\* FutureSharedState::resolve: Pending -> Ready; an abandoned state drops the result.
resolve(f, res) ==
  IF f.st = "Pending"
  THEN [f EXCEPT !.st = "Ready", !.ok = res.ok, !.bytes = res.bytes,
                 !.err = res.err, !.waker = 0]
  ELSE f

\* The guest task woken by resolve (0: none).
resolve_wakes(f) == IF f.st = "Pending" THEN f.waker ELSE 0

\* FutureSharedState::register_waker: at most one waker, the latest poller.
register_waker(f, task_id) ==
  IF f.st \in {"Pending", "Ready"} THEN [f EXCEPT !.waker = task_id] ELSE f

\* FutureSharedState::take_result: Some(result) exactly when Ready.
has_result(f) == f.st = "Ready"
result_of(f) == [ok |-> f.ok, bytes |-> f.bytes, err |-> f.err]
take_result(f) ==
  IF f.st = "Ready"
  THEN [f EXCEPT !.st = "Consumed", !.ok = TRUE, !.bytes = <<>>, !.err = "", !.waker = 0]
  ELSE f

\* FutureSharedState::abandon
abandon(f) ==
  [f EXCEPT !.st = "Abandoned", !.ok = TRUE, !.bytes = <<>>, !.err = "", !.waker = 0]

\* ---------------------------------------------------------------- singletons
\* SingletonRegistryService::register whose existence check comes after the
\* insert and is never reached for a duplicate.
Singleton_register_unchecked(reg, id, resource) ==
  LET r == register_singleton(reg, id, resource) IN
  IF ~r.inserted THEN [err |-> "StableIdExists", registry |-> reg]
  ELSE IF ~metadata(reg, resource) THEN [err |-> "NotFound", registry |-> r.registry]
  ELSE [err |-> "", registry |-> r.registry]

\* SingletonRegistryService::register.  Returns [err, registry].
Singleton_register(reg, id, resource) ==
  IF ~metadata(reg, resource) THEN [err |-> "NotFound", registry |-> reg]
  ELSE LET r == register_singleton(reg, id, resource) IN
       IF ~r.inserted THEN [err |-> "StableIdExists", registry |-> reg]
       ELSE [err |-> "", registry |-> r.registry]

\* SingletonRegistryService::lookup that trusts the mapping.
Singleton_lookup_stale(reg, id) ==
  IF singleton(reg, id) = -1 THEN [err |-> "NotFound", resource |-> -1]
  ELSE [err |-> "", resource |-> singleton(reg, id)]

\* SingletonRegistryService::lookup.  Returns [err, resource].
Singleton_lookup(reg, id) ==
  IF singleton(reg, id) = -1 THEN [err |-> "NotFound", resource |-> -1]
  ELSE IF ~metadata(reg, singleton(reg, id)) THEN [err |-> "NotFound", resource |-> -1]
  ELSE [err |-> "", resource |-> singleton(reg, id)]

\* Host threads calling the service: a register call is idle, has passed its
\* existence check (checked), or has returned (done) with err, its arguments
\* gone.  History: the
\* resources the host has added, registers that succeeded for each id, and the
\* resource the first of them named.
NoCall == [pc |-> "idle", id |-> 0, resource |-> -1, err |-> ""]
NoSingle ==
  [ calls |-> [c \in Callers |-> NoCall],
    added |-> 0,
    wins  |-> [d \in DependencyIds |-> 0],
    first |-> [d \in DependencyIds |-> -1] ]

\* ------------------------------------------------------------------ mailbox
\* WakeMailbox: a waker signals its task.  refresh_base re-caches the base of
\* the guest memory and changes nothing else of the mailbox.
refresh_mailbox(mb) == mb
signal(mb, task_id) ==
  IF task_id = 0 THEN mb ELSE [mb EXCEPT !.signalled = mb.signalled \cup {task_id}]

\* ------------------------------------------------------ shared-memory arena
\* is_power_of_two that only rules out zero.
is_nonzero(n) == n # 0

is_power_of_two(n) == n \in {1, 2, 4, 8, 16, 32, 64}

\* align_up that leaves the value where it is.
align_up_skipped(value, align) == value

\* align_up: (value + mask) & !mask, mask = align - 1, align a power of two.
align_up(value, align) == ((value + (align - 1)) \div align) * align

NewArena == [next_offset |-> 0, allocations |-> {}]

\* alloc that publishes the start of the region as the new high-water mark.
alloc_publishes_start(ar, size, align) ==
  IF size = 0 THEN [err |-> "InvalidArgument", offset |-> 0, len |-> 0, arena |-> ar]
  ELSE IF align = 0 \/ ~is_power_of_two(align)
  THEN [err |-> "InvalidArgument", offset |-> 0, len |-> 0, arena |-> ar]
  ELSE LET aligned == align_up(ar.next_offset, align)
           end == aligned + size
       IN IF end > ArenaBytes
          THEN [err |-> "WouldBlock", offset |-> 0, len |-> 0, arena |-> ar]
          ELSE [ err |-> "", offset |-> aligned, len |-> size,
                 arena |->
                   [ next_offset |-> aligned,
                     allocations |->
                       {a \in ar.allocations : a.offset # aligned}
                       \cup {[offset |-> aligned, len |-> size,
                               bytes |-> [i \in 1 .. size |-> 0]]} ] ]

\* SharedMemoryDriver::alloc, one uncontended pass of the compare-exchange loop.
\* Returns [err, offset, len, arena].
alloc(ar, size, align) ==
  IF size = 0 THEN [err |-> "InvalidArgument", offset |-> 0, len |-> 0, arena |-> ar]
  ELSE IF align = 0 \/ ~is_power_of_two(align)
  THEN [err |-> "InvalidArgument", offset |-> 0, len |-> 0, arena |-> ar]
  ELSE LET aligned == align_up(ar.next_offset, align)
           end == aligned + size
       IN IF end > ArenaBytes
          THEN [err |-> "WouldBlock", offset |-> 0, len |-> 0, arena |-> ar]
          ELSE [ err |-> "", offset |-> aligned, len |-> size,
                 arena |->
                   [ next_offset |-> end,
                     allocations |->
                       {a \in ar.allocations : a.offset # aligned}
                       \cup {[offset |-> aligned, len |-> size,
                               bytes |-> [i \in 1 .. size |-> 0]]} ] ]

\* checked_bounds: offset + len within the region.
checked_bounds(region_len, offset, len) == offset + len <= region_len

\* The allocation stored under an offset, if any.
allocation(ar, offset) == {a \in ar.allocations : a.offset = offset}

\* SharedMemoryDriver::read; returns [err, bytes].
read(ar, region, offset, len) ==
  IF ~checked_bounds(region.len, offset, len)
  THEN [err |-> "InvalidArgument", bytes |-> <<>>]
  ELSE IF allocation(ar, region.offset) = {} THEN [err |-> "NotFound", bytes |-> <<>>]
  ELSE LET a == CHOOSE a \in allocation(ar, region.offset) : TRUE IN
       IF a.len # region.len THEN [err |-> "InvalidArgument", bytes |-> <<>>]
       ELSE [err |-> "", bytes |-> SubSeq(a.bytes, offset + 1, offset + len)]

\* write that copies the slice to the start of the region.
write_at_start(ar, region, offset, bytes) ==
  IF ~checked_bounds(region.len, offset, Len(bytes))
  THEN [err |-> "InvalidArgument", arena |-> ar]
  ELSE IF allocation(ar, region.offset) = {} THEN [err |-> "NotFound", arena |-> ar]
  ELSE LET a == CHOOSE a \in allocation(ar, region.offset) : TRUE IN
       IF a.len # region.len THEN [err |-> "InvalidArgument", arena |-> ar]
       ELSE [ err |-> "",
              arena |->
                [ar EXCEPT !.allocations =
                   (@ \ {a}) \cup
                   {[a EXCEPT !.bytes =
                       [i \in 1 .. a.len |->
                          IF i <= Len(bytes) THEN bytes[i] ELSE a.bytes[i]]]}] ]

\* SharedMemoryDriver::write; returns [err, arena].
write(ar, region, offset, bytes) ==
  IF ~checked_bounds(region.len, offset, Len(bytes))
  THEN [err |-> "InvalidArgument", arena |-> ar]
  ELSE IF allocation(ar, region.offset) = {} THEN [err |-> "NotFound", arena |-> ar]
  ELSE LET a == CHOOSE a \in allocation(ar, region.offset) : TRUE IN
       IF a.len # region.len THEN [err |-> "InvalidArgument", arena |-> ar]
       ELSE [ err |-> "",
              arena |->
                [ar EXCEPT !.allocations =
                   (@ \ {a}) \cup
                   {[a EXCEPT !.bytes =
                       [i \in 1 .. a.len |->
                          IF offset < i /\ i <= offset + Len(bytes)
                          THEN bytes[i - offset] ELSE a.bytes[i]]]}] ]

\* The engine's side of process::start and process::stop: the start in
\* progress (or the last one made) with the resources the registry held before
\* it, the last stop, the resource each started process received under the
\* first slot of its own instance (-1: none), and the engine stops per process.
NoStart == [pc |-> "idle", slot |-> 0, process_id |-> 0, resource |-> -1, before |-> <<>>]
NoStop == [handle |-> -1, err |-> ""]

\* A poll hook in progress on the guest's thread (pc: calls of poll_state made
\* so far, got: what take_result returned), the waker a resolve in progress
\* took and has yet to invoke (-1: none in progress), and history: the task
\* whose pending poll registered the waker a slot still holds (pend), the tasks
\* whose polls of a slot returned pending (pended), and the tasks whose wakers
\* the resolve of a slot invoked (woken).
NoPoll == [pc |-> 0, state_id |-> 0, task_id |-> 0, got |-> "none"]

\* A host thread inside SharedMemoryDriver::alloc (pc: idle, about to load the
\* mark, about to compare-exchange it, about to insert the allocation) with
\* the locals of its pass of the loop; and history: the regions alloc has
\* returned, in order.
AllocThreads == {1, 2}
NoAlloc == [pc |-> "idle", size |-> 0, align |-> 0, current |-> 0, aligned |-> 0, end |-> 0]

\* The guest's DriverFuture of each handle (st: none, live, dropped, or trapped
\* with its instance; handle: is the Option Some; capacity: result.len()), and
\* history: has a poll hook of it returned ready or error, the drop hooks
\* called for it, the hooks called on the handle after such a poll, and what
\* the last poll of the future returned.
NoStub == [st |-> "none", handle |-> FALSE, capacity |-> 0, terminal |-> FALSE,
           drops |-> 0, late |-> 0, last |-> ""]

\* The guest's call of yield_now (pc: running guest code, at the check of the
\* loop, about to build the select, or parked in it), whether the Notified
\* future of the select has been notified, whether shutdown.notify_waiters()
\* has been called and the mailbox closed, and history: whether yield_now has
\* returned, and which of the three conditions held when it last did.
NoYield == [pc |-> "running", notified |-> FALSE, shutdown |-> FALSE,
            closed |-> FALSE, resumed |-> FALSE, why |-> {}]

\* The mutex of the allocation table, a host thread's write in progress
\* (lock taken, `done` bytes of the slice copied), and history: the bytes each
\* region holds by the writes completed so far (shadow), and what the last
\* shm::read returned next to what the shadow held then (seen).
NoWrite == [pc |-> "idle", region |-> [offset |-> 0, len |-> 0], at |-> 0,
            bytes |-> <<>>, done |-> 0]
NoHost ==
  [ lock   |-> 0,
    write  |-> NoWrite,
    shadow |-> [o \in 0 .. ArenaBytes |-> <<>>],
    seen   |-> [got |-> <<>>, want |-> <<>>],
    call   |-> [req |-> [sym |-> "none"], err |-> "", offset |-> 0, len |-> 0],
    start  |-> NoStart,
    stop   |-> NoStop,
    children |-> [p \in SessionSlotIds |-> -1],
    stops  |-> [p \in SessionSlotIds |-> 0],
    poll   |-> NoPoll,
    waking |-> [s \in SlotIds |-> -1],
    pend   |-> [s \in SlotIds |-> 0],
    pended |-> [s \in SlotIds |-> {}],
    woken  |-> [s \in SlotIds |-> {}],
    yield  |-> NoYield,
    allocs |-> [t \in AllocThreads |-> NoAlloc],
    granted |-> <<>>,
    stubs  |-> [f \in SlotIds |-> NoStub] ]

\* allocations.lock(): does a caller find the mutex free?
lock_free(h) == h.lock = 0

\* ---------------------------------------------------------- driver outputs
\* Typed driver outputs and their encoding (encode_rkyv: the fields in order).
Unit == [tag |-> "Unit", a |-> 0, b |-> 0, c |-> 0, d |-> 0]
TimeNow(unix_ms, monotonic_ms) ==
  [tag |-> "TimeNow", a |-> unix_ms, b |-> monotonic_ms, c |-> 0, d |-> 0]
ShmDescriptor(resource_id, shared_id, offset, len) ==
  [tag |-> "ShmDescriptor", a |-> resource_id, b |-> shared_id, c |-> offset, d |-> len]

U32(n) == [tag |-> "U32", a |-> n, b |-> 0, c |-> 0, d |-> 0]
GuestResourceId(n) == [tag |-> "GuestResourceId", a |-> n, b |-> 0, c |-> 0, d |-> 0]
Bytes(s) ==
  [ tag |-> "Bytes", a |-> Len(s),
    b |-> IF Len(s) >= 1 THEN s[1] ELSE 0,
    c |-> IF Len(s) >= 2 THEN s[2] ELSE 0,
    d |-> IF Len(s) >= 3 THEN s[3] ELSE 0 ]

encode_rkyv(out) ==
  CASE out.tag = "Unit"          -> <<>>
    [] out.tag = "U32"           -> <<out.a>>
    [] out.tag = "GuestResourceId" -> <<out.a>>
    [] out.tag = "TimeNow"       -> <<out.a, out.b>>
    [] out.tag = "ShmDescriptor" -> <<out.a, out.b, out.c, out.d>>
    [] out.tag = "Bytes"         -> SubSeq(<<out.b, out.c, out.d>>, 1, out.a)

\* SystemTimeService::now
now(clk) == TimeNow(UnixEpochMs + clk, clk)

\* ------------------------------------------------------------------ drivers
\* Contract::to_future of the drivers in the model.  The result is the future the
\* executor task will await, [kind, err, out, dur], with the registry and arena
\* as the driver left them: kind "ready" is future::ready(result), "now" and
\* "sleep" are async blocks that do their work when first polled.
Fut(kind, err, out, dur) == [kind |-> kind, err |-> err, out |-> out, dur |-> dur]

\* ShmAllocDriver::to_future
shm_alloc_to_future(reg, ar, size, align) ==
  LET r == alloc(ar, size, align) IN
  IF r.err # ""
  THEN [fut |-> Fut("ready", r.err, Unit, 0), registry |-> reg, arena |-> r.arena]
  ELSE LET slot == reg.nextSlot
           reg1 == insert(reg, "SharedMemory", r.offset, r.len)
           resource_id == entry(reg1, slot)
           reg2 == share_handle(reg1, resource_id)
           shared_id == alias_of(reg2, resource_id)
       IN [ fut |-> Fut("ready", "", ShmDescriptor(slot, shared_id, r.offset, r.len), 0),
            registry |-> reg2, arena |-> r.arena ]

\* TimeNowDriver::to_future
time_now_to_future(reg, ar) ==
  [fut |-> Fut("now", "", Unit, 0), registry |-> reg, arena |-> ar]

\* TimeSleepDriver::to_future
time_sleep_to_future(reg, ar, duration_ms) ==
  [fut |-> Fut("sleep", "", Unit, duration_ms), registry |-> reg, arena |-> ar]

\* The future::ready(result) a session driver returns, with the registry as the
\* driver left it.
ready(err, out, reg, ar) ==
  [fut |-> Fut("ready", err, out, 0), registry |-> reg, arena |-> ar]

\* SessionCreateDriver::to_future without the grant to the parent.
session_create_ungranted(reg, ar, session_id, pubkey) ==
  IF ~is_session(reg, session_id) THEN ready("NotFound", Unit, reg, ar)
  ELSE LET new_session == Session_create(session_at(reg, session_id), pubkey)
           slot == reg.nextSlot
           reg1 == insert_session(reg, new_session)
       IN IF "SessionLifecycle" \notin session_at(reg, session_id).caps
          THEN ready("PermissionDenied", Unit, reg1, ar)
          ELSE ready("", U32(slot), reg1, ar)

\* SessionCreateDriver::to_future with a child that starts from the parent's
\* entitlements.
session_create_inherits(reg, ar, session_id, pubkey) ==
  IF ~is_session(reg, session_id) THEN ready("NotFound", Unit, reg, ar)
  ELSE LET new_session == [session_at(reg, session_id) EXCEPT !.pubkey = pubkey]
           slot == reg.nextSlot
           reg1 == insert_session(reg, new_session)
           g == grant_session_resource(reg1, session_id, "SessionLifecycle", slot)
       IN IF ~g.granted THEN ready("PermissionDenied", Unit, g.registry, ar)
          ELSE ready("", U32(slot), g.registry, ar)

\* SessionCreateDriver::to_future
session_create_to_future(reg, ar, session_id, pubkey) ==
  IF ~is_session(reg, session_id) THEN ready("NotFound", Unit, reg, ar)
  ELSE LET new_session == Session_create(session_at(reg, session_id), pubkey)
           slot == reg.nextSlot
           reg1 == insert_session(reg, new_session)
           g == grant_session_resource(reg1, session_id, "SessionLifecycle", slot)
       IN IF ~g.granted THEN ready("PermissionDenied", Unit, g.registry, ar)
          ELSE ready("", U32(slot), g.registry, ar)

\* SessionAddEntitlementDriver::to_future with the scope of the caller's
\* SessionLifecycle left out of the check.
session_add_entitlement_unscoped(reg, ar, session_id, target_id, capability) ==
  IF ~is_session(reg, session_id) THEN ready("NotFound", Unit, reg, ar)
  ELSE IF "SessionLifecycle" \notin session_at(reg, session_id).caps
  THEN ready("PermissionDenied", Unit, reg, ar)
  ELSE IF ~is_session(reg, target_id) THEN ready("NotFound", Unit, reg, ar)
  ELSE ready("", Unit,
             set_session(reg, target_id,
                         add_entitlement(session_at(reg, target_id), capability)), ar)

\* SessionAddEntitlementDriver::to_future with an add that starts the scoped
\* set of the capability afresh.
session_add_entitlement_resets(reg, ar, session_id, target_id, capability) ==
  IF ~is_session(reg, session_id) THEN ready("NotFound", Unit, reg, ar)
  ELSE IF ~authorise(session_at(reg, session_id), "SessionLifecycle", target_id)
  THEN ready("PermissionDenied", Unit, reg, ar)
  ELSE IF ~is_session(reg, target_id) THEN ready("NotFound", Unit, reg, ar)
  ELSE ready("", Unit,
             set_session(reg, target_id,
                         add_entitlement(rm_entitlement(session_at(reg, target_id), capability),
                                         capability)), ar)

\* SessionAddEntitlementDriver::to_future that also asks the caller to hold
\* the capability it adds.
session_add_entitlement_held(reg, ar, session_id, target_id, capability) ==
  IF ~is_session(reg, session_id) THEN ready("NotFound", Unit, reg, ar)
  ELSE IF \/ ~authorise(session_at(reg, session_id), "SessionLifecycle", target_id)
          \/ capability \notin session_at(reg, session_id).caps
  THEN ready("PermissionDenied", Unit, reg, ar)
  ELSE IF ~is_session(reg, target_id) THEN ready("NotFound", Unit, reg, ar)
  ELSE ready("", Unit,
             set_session(reg, target_id,
                         add_entitlement(session_at(reg, target_id), capability)), ar)

\* SessionAddEntitlementDriver::to_future
session_add_entitlement_to_future(reg, ar, session_id, target_id, capability) ==
  IF ~is_session(reg, session_id) THEN ready("NotFound", Unit, reg, ar)
  ELSE IF ~authorise(session_at(reg, session_id), "SessionLifecycle", target_id)
  THEN ready("PermissionDenied", Unit, reg, ar)
  ELSE IF ~is_session(reg, target_id) THEN ready("NotFound", Unit, reg, ar)
  ELSE ready("", Unit,
             set_session(reg, target_id,
                         add_entitlement(session_at(reg, target_id), capability)), ar)

\* SessionRemoveEntitlementDriver::to_future without the authorisation check.
session_rm_entitlement_unchecked(reg, ar, session_id, target_id, capability) ==
  IF ~is_session(reg, session_id) THEN ready("NotFound", Unit, reg, ar)
  ELSE IF ~is_session(reg, target_id) THEN ready("NotFound", Unit, reg, ar)
  ELSE ready("", Unit,
             set_session(reg, target_id,
                         rm_entitlement(session_at(reg, target_id), capability)), ar)

\* SessionRemoveEntitlementDriver::to_future
session_rm_entitlement_to_future(reg, ar, session_id, target_id, capability) ==
  IF ~is_session(reg, session_id) THEN ready("NotFound", Unit, reg, ar)
  ELSE IF ~authorise(session_at(reg, session_id), "SessionLifecycle", target_id)
  THEN ready("PermissionDenied", Unit, reg, ar)
  ELSE IF ~is_session(reg, target_id) THEN ready("NotFound", Unit, reg, ar)
  ELSE ready("", Unit,
             set_session(reg, target_id,
                         rm_entitlement(session_at(reg, target_id), capability)), ar)

\* SessionAddResourceDriver::to_future: 1 when the scoped set changed, else 0.
session_add_resource_to_future(reg, ar, session_id, target_id, capability, resource_id) ==
  IF ~is_session(reg, session_id) THEN ready("NotFound", Unit, reg, ar)
  ELSE IF ~authorise(session_at(reg, session_id), "SessionLifecycle", target_id)
  THEN ready("PermissionDenied", Unit, reg, ar)
  ELSE IF ~is_session(reg, target_id) THEN ready("NotFound", Unit, reg, ar)
  ELSE LET r == add_resource(session_at(reg, target_id), capability, resource_id) IN
       ready("", U32(IF r.changed THEN 1 ELSE 0),
             set_session(reg, target_id, r.session), ar)

\* SessionRemoveResourceDriver::to_future reporting 1 whatever the change.
session_rm_resource_flags_one(reg, ar, session_id, target_id, capability, resource_id) ==
  IF ~is_session(reg, session_id) THEN ready("NotFound", Unit, reg, ar)
  ELSE IF ~authorise(session_at(reg, session_id), "SessionLifecycle", target_id)
  THEN ready("PermissionDenied", Unit, reg, ar)
  ELSE IF ~is_session(reg, target_id) THEN ready("NotFound", Unit, reg, ar)
  ELSE LET r == rm_resource(session_at(reg, target_id), capability, resource_id) IN
       ready("", U32(1), set_session(reg, target_id, r.session), ar)

\* SessionRemoveResourceDriver::to_future: 1 when the scoped set changed, else 0.
session_rm_resource_to_future(reg, ar, session_id, target_id, capability, resource_id) ==
  IF ~is_session(reg, session_id) THEN ready("NotFound", Unit, reg, ar)
  ELSE IF ~authorise(session_at(reg, session_id), "SessionLifecycle", target_id)
  THEN ready("PermissionDenied", Unit, reg, ar)
  ELSE IF ~is_session(reg, target_id) THEN ready("NotFound", Unit, reg, ar)
  ELSE LET r == rm_resource(session_at(reg, target_id), capability, resource_id) IN
       ready("", U32(IF r.changed THEN 1 ELSE 0),
             set_session(reg, target_id, r.session), ar)

\* SessionRemoveDriver::to_future asking only whether the caller holds
\* SessionLifecycle, not whether its scope covers the target.
session_remove_unscoped(reg, ar, session_id, target_id) ==
  IF ~is_session(reg, session_id) THEN ready("NotFound", Unit, reg, ar)
  ELSE IF "SessionLifecycle" \notin session_at(reg, session_id).caps
  THEN ready("PermissionDenied", Unit, reg, ar)
  ELSE LET reg1 == remove_session(reg, target_id)
           r == revoke_session_resource(reg1, session_id, "SessionLifecycle", target_id)
       IN ready(r.err, Unit, r.registry, ar)

\* SessionRemoveDriver::to_future: remove the target, then revoke it from the
\* caller's SessionLifecycle scope.
session_remove_to_future(reg, ar, session_id, target_id) ==
  IF ~is_session(reg, session_id) THEN ready("NotFound", Unit, reg, ar)
  ELSE IF ~authorise(session_at(reg, session_id), "SessionLifecycle", target_id)
  THEN ready("PermissionDenied", Unit, reg, ar)
  ELSE LET reg1 == remove_session(reg, target_id)
           r == revoke_session_resource(reg1, session_id, "SessionLifecycle", target_id)
       IN ready(r.err, Unit, r.registry, ar)

\* The steps the read and write drivers start with: the slot's
\* resource, its metadata, its kind; returns [err, rid, region].
local_region(reg, resource_id) ==
  LET rid == entry(reg, resource_id)
      none == [offset |-> 0, len |-> 0]
  IN IF rid = -1 \/ ~metadata(reg, rid) THEN [err |-> "NotFound", rid |-> rid, region |-> none]
     ELSE IF reg.resources[rid].kind # "SharedMemory"
     THEN [err |-> "InvalidArgument", rid |-> rid, region |-> none]
     ELSE [ err |-> "", rid |-> rid,
            region |-> [offset |-> reg.resources[rid].offset,
                        len |-> reg.resources[rid].len] ]

\* ShmAttachDriver::to_future
shm_attach_to_future(reg, ar, shared_id) ==
  LET rid == resolve_shared(reg, shared_id) IN
  IF rid = -1 \/ ~metadata(reg, rid) THEN ready("NotFound", Unit, reg, ar)
  ELSE IF reg.resources[rid].kind # "SharedMemory"
  THEN ready("InvalidArgument", Unit, reg, ar)
  ELSE ready("", ShmDescriptor(reg.nextSlot, shared_id, reg.resources[rid].offset,
                               reg.resources[rid].len),
             insert_id(reg, rid), ar)

\* ShmReadDriver::to_future
shm_read_to_future(reg, ar, resource_id, offset, len) ==
  LET l == local_region(reg, resource_id) IN
  IF l.err # "" THEN ready(l.err, Unit, reg, ar)
  ELSE LET r == read(ar, l.region, offset, len) IN
       IF r.err # "" THEN ready(r.err, Unit, reg, ar)
       ELSE ready("", Bytes(r.bytes), reg, ar)

\* ShmWriteDriver::to_future
shm_write_to_future(reg, ar, resource_id, offset, bytes) ==
  LET l == local_region(reg, resource_id) IN
  IF l.err # "" THEN ready(l.err, Unit, reg, ar)
  ELSE LET w == write(ar, l.region, offset, bytes) IN
       ready(w.err, Unit, reg, w.arena)

\* detach_slot that also consumes the resource the slot named.
detach_slot_consumes(reg, slot) ==
  remove([reg EXCEPT !.slots[slot] = NoSlot], entry(reg, slot))

\* InstanceRegistry::detach_slot: the slot association goes, nothing else.
detach_slot(reg, slot) == [reg EXCEPT !.slots[slot] = NoSlot]

\* ShmDetachDriver::to_future
shm_detach_to_future(reg, ar, resource_id) ==
  LET l == local_region(reg, resource_id) IN
  IF l.err # "" THEN ready(l.err, Unit, reg, ar)
  ELSE ready("", Unit, detach_slot(reg, resource_id), ar)

\* Shared-memory requests, the ids drawn from the slots and handles handed out
\* so far and one that was never handed out.
ShmRequests(reg, sym) ==
  CASE sym = "shm_alloc" ->
         {[sym |-> sym, size |-> sz, align |-> al] : sz \in AllocSizes, al \in AllocAligns}
    [] sym = "shm_attach" ->
         {[sym |-> sym, shared_id |-> s] : s \in 0 .. reg.nextShared}
    [] sym = "shm_detach" ->
         {[sym |-> sym, resource_id |-> s] : s \in 0 .. reg.nextSlot}
    [] sym = "shm_read" ->
         {[sym |-> sym, resource_id |-> s, offset |-> o, len |-> n] :
            s \in 0 .. reg.nextSlot, o \in {0, 1}, n \in {1, 2}}
    [] sym = "shm_write" ->
         {[sym |-> sym, resource_id |-> s, offset |-> o, bytes |-> b] :
            s \in 0 .. reg.nextSlot, o \in {0, 1}, b \in WritePayloads}

\* resolve_entrypoint_resources for an invocation with no resource argument
\* (handle -1) or with one i32 resource argument; returns [err, resource].
resolve_entrypoint_resources(reg, handle) ==
  IF handle = -1 THEN [err |-> "", resource |-> -1]
  ELSE IF entry(reg, handle) = -1 THEN [err |-> "NotFound", resource |-> -1]
  ELSE [err |-> "", resource |-> entry(reg, handle)]

\* ProcessStartDriver::to_future: the preparation is made at once, the rest is
\* the async block the task runs; `out` carries the resolved argument.
process_start_to_future(reg, ar, handle) ==
  LET preparation == resolve_entrypoint_resources(reg, handle) IN
  [ fut |-> Fut("process_start", preparation.err, GuestResourceId(preparation.resource), 0),
    registry |-> reg, arena |-> ar ]

\* ProcessStopDriver::to_future: all of it is the async block.
process_stop_to_future(reg, ar, input) ==
  [fut |-> Fut("process_stop", "", GuestResourceId(input), 0), registry |-> reg, arena |-> ar]

\* The end of the start block that returns the error and keeps the reservation.
start_outcome_keeps(reg, process_id, started) ==
  IF started THEN [err |-> "", registry |-> reg]
  ELSE [err |-> "Subsystem", registry |-> reg]

\* The end of ProcessStartDriver's async block, once inner.start has returned.
start_outcome(reg, process_id, started) ==
  IF started THEN [err |-> "", registry |-> reg]
  ELSE [err |-> "Subsystem", registry |-> discard(reg, process_id)]

\* The stop block without the check of the kind.
process_stop_unchecked(reg, handle, stopped) ==
  IF ~metadata(reg, handle) THEN [err |-> "NotFound", registry |-> reg, stops |-> 0]
  ELSE [ err |-> IF stopped THEN "" ELSE "Subsystem",
         registry |-> remove(reg, handle), stops |-> 1 ]

\* ProcessStopDriver's async block; `stopped` is the result of inner.stop.
\* Returns [err, registry, stops], stops the calls of inner.stop made.
process_stop(reg, handle, stopped) ==
  IF metadata(reg, handle) /\ reg.resources[handle].kind # "Process"
  THEN [err |-> "InvalidArgument", registry |-> reg, stops |-> 0]
  ELSE IF ~metadata(reg, handle) THEN [err |-> "NotFound", registry |-> reg, stops |-> 0]
  ELSE [ err |-> IF stopped THEN "" ELSE "Subsystem",
         registry |-> remove(reg, handle), stops |-> 1 ]

\* Process requests: the entrypoint's resource argument is a slot handed out so
\* far, one never handed out, or absent; a stop names any resource id so far.
ProcessRequests(reg, sym) ==
  CASE sym = "process_start" ->
         {[sym |-> sym, handle |-> h] : h \in -1 .. reg.nextSlot}
    [] sym = "process_stop" ->
         {[sym |-> sym, input |-> r] : r \in 0 .. reg.nextRid}

\* SingletonRegisterDriver::to_future
singleton_register_to_future(reg, ar, id, resource) ==
  LET resource_id == resolve_shared(reg, resource) IN
  IF resource_id = -1 THEN ready("NotFound", Unit, reg, ar)
  ELSE LET r == Singleton_register(reg, id, resource_id) IN
       ready(r.err, Unit, r.registry, ar)

\* SingletonLookupDriver::to_future handing out the resource id itself.
singleton_lookup_unshared(reg, ar, id) ==
  LET l == Singleton_lookup(reg, id) IN
  IF l.err # "" THEN ready(l.err, Unit, reg, ar)
  ELSE ready("", GuestResourceId(l.resource), reg, ar)

\* SingletonLookupDriver::to_future
singleton_lookup_to_future(reg, ar, id) ==
  LET l == Singleton_lookup(reg, id) IN
  IF l.err # "" THEN ready(l.err, Unit, reg, ar)
  ELSE LET reg1 == share_handle(reg, l.resource) IN
       ready("", GuestResourceId(alias_of(reg1, l.resource)), reg1, ar)

\* Singleton requests: [sym, id, resource], the shared handle drawn from the
\* handles minted so far and one that was never minted.
SingletonRequests(reg, sym) ==
  IF sym = "singleton_register"
  THEN {[sym |-> sym, id |-> d, resource |-> h] :
          d \in DependencyIds, h \in 0 .. reg.nextShared}
  ELSE {[sym |-> sym, id |-> d, resource |-> 0] : d \in DependencyIds}

\* Session requests: [sym, session_id, target_id, capability, resource_id,
\* pubkey], the ids drawn from the slot ids the instance has seen so far.
SessionRequests(reg, sym) ==
  LET ids == 0 .. (reg.nextSlot - 1) IN
  CASE sym \in {"session_create"} ->
         {[sym |-> sym, session_id |-> p, target_id |-> 0,
           capability |-> "SessionLifecycle", resource_id |-> 0, pubkey |-> k] :
            p \in ids, k \in Pubkeys}
    [] sym \in {"session_remove"} ->
         {[sym |-> sym, session_id |-> p, target_id |-> t,
           capability |-> "SessionLifecycle", resource_id |-> 0, pubkey |-> 0] :
            p \in ids, t \in ids}
    [] sym \in {"session_add_entitlement", "session_rm_entitlement"} ->
         {[sym |-> sym, session_id |-> p, target_id |-> t,
           capability |-> c, resource_id |-> 0, pubkey |-> 0] :
            p \in ids, t \in ids, c \in SessionCaps}
    [] OTHER ->
         {[sym |-> sym, session_id |-> p, target_id |-> t,
           capability |-> c, resource_id |-> r, pubkey |-> 0] :
            p \in ids, t \in ids, c \in SessionCaps, r \in ids}

\* Requests a guest can make: [sym, size, align, duration_ms].
Requests ==
  {[sym |-> "time_now", size |-> 0, align |-> 0, duration_ms |-> 0]}
  \cup {[sym |-> "time_sleep", size |-> 0, align |-> 0, duration_ms |-> d] :
          d \in SleepDurations}
  \cup {[sym |-> "shm_alloc", size |-> sz, align |-> al, duration_ms |-> 0] :
          sz \in ShmSizes, al \in ShmAligns}

\* The driver of the operation a hook was linked for.
to_future(reg, ar, req) ==
  CASE req.sym = "time_now"   -> time_now_to_future(reg, ar)
    [] req.sym = "time_sleep" -> time_sleep_to_future(reg, ar, req.duration_ms)
    [] req.sym = "shm_alloc"  -> shm_alloc_to_future(reg, ar, req.size, req.align)
    [] req.sym = "shm_attach" -> shm_attach_to_future(reg, ar, req.shared_id)
    [] req.sym = "shm_detach" -> shm_detach_to_future(reg, ar, req.resource_id)
    [] req.sym = "shm_read"   ->
         shm_read_to_future(reg, ar, req.resource_id, req.offset, req.len)
    [] req.sym = "shm_write"  ->
         shm_write_to_future(reg, ar, req.resource_id, req.offset, req.bytes)
    [] req.sym = "process_start" -> process_start_to_future(reg, ar, req.handle)
    [] req.sym = "process_stop"  -> process_stop_to_future(reg, ar, req.input)
    [] req.sym = "singleton_register" ->
         singleton_register_to_future(reg, ar, req.id, req.resource)
    [] req.sym = "singleton_lookup" -> singleton_lookup_to_future(reg, ar, req.id)
    [] req.sym = "session_create" ->
         session_create_to_future(reg, ar, req.session_id, req.pubkey)
    [] req.sym = "session_remove" ->
         session_remove_to_future(reg, ar, req.session_id, req.target_id)
    [] req.sym = "session_add_entitlement" ->
         session_add_entitlement_to_future(reg, ar, req.session_id, req.target_id,
                                           req.capability)
    [] req.sym = "session_rm_entitlement" ->
         session_rm_entitlement_to_future(reg, ar, req.session_id, req.target_id,
                                          req.capability)
    [] req.sym = "session_add_resource" ->
         session_add_resource_to_future(reg, ar, req.session_id, req.target_id,
                                        req.capability, req.resource_id)
    [] req.sym = "session_rm_resource" ->
         session_rm_resource_to_future(reg, ar, req.session_id, req.target_id,
                                       req.capability, req.resource_id)

\* --------------------------------------------------------- executor tasks
NoTask == [pc |-> "none", sym |-> "", fut |-> Fut("ready", "", Unit, 0), deadline |-> 0]

\* A task that ran to its end: the closure and the future it owned are gone.
DoneTask == [pc |-> "done", sym |-> "", fut |-> Fut("ready", "", Unit, 0), deadline |-> 0]

\* The result the spawned closure hands to resolve: the driver's output run
\* through encode_rkyv, or the driver's error.
task_result(fut, clk) ==
  IF fut.err # "" THEN Err(fut.err)
  ELSE IF fut.kind = "now" THEN Ok(encode_rkyv(now(clk)))
  ELSE Ok(encode_rkyv(fut.out))

\* Is the task runnable: just spawned, or asleep with its timer elapsed?
task_ready(t, clk) ==
  t.pc = "spawned" \/ (t.pc = "sleeping" /\ clk >= t.deadline)

\* run_task with a resolve that stores the result whatever the state holds.
run_task_overwrites(t, f, clk) ==
  IF t.pc = "spawned" /\ t.fut.kind = "sleep" /\ t.fut.dur > 0
  THEN [ task |-> [t EXCEPT !.pc = "sleeping", !.deadline = clk + t.fut.dur],
         state |-> f, wakes |-> 0, resolved |-> 0 ]
  ELSE LET res == task_result(t.fut, clk) IN
       [ task |-> DoneTask,
         state |-> [f EXCEPT !.st = "Ready", !.ok = res.ok, !.bytes = res.bytes,
                             !.err = res.err, !.waker = 0],
         wakes |-> f.waker, resolved |-> 1 ]

\* One run of the closure spawned by create_with_input, up to its next
\* suspension: `task.await` (tokio::time::sleep suspends until the deadline),
\* then shared.resolve(result).  Returns [task, state, wakes, resolved].
run_task(t, f, clk) ==
  IF t.pc = "spawned" /\ t.fut.kind = "sleep" /\ t.fut.dur > 0
  THEN [ task |-> [t EXCEPT !.pc = "sleeping", !.deadline = clk + t.fut.dur],
         state |-> f, wakes |-> 0, resolved |-> 0 ]
  ELSE [ task |-> DoneTask,
         state |-> resolve(f, task_result(t.fut, clk)),
         wakes |-> resolve_wakes(f), resolved |-> 1 ]

\* -------------------------------------------------------- operation runtime
\* Operation::create_with_input: ask the driver for the task, allocate the
\* shared state, spawn the task, insert the state as a Future slot.
create_with_input(reg, ar, shr, tsk, req) ==
  LET tf == to_future(reg, ar, req)
      handle == tf.registry.nextSlot
  IN [ registry |-> insert_future(tf.registry),
       arena    |-> tf.arena,
       shared   |-> [shr EXCEPT ![handle] = FutureSharedState_new],
       tasks    |-> [tsk EXCEPT ![handle] =
                       [pc |-> "spawned", sym |-> req.sym, fut |-> tf.fut, deadline |-> 0]],
       handle   |-> handle ]

\* Slots a create needs: the Future slot, and the region slot of a granted alloc.
slots_needed(ar, req) ==
  IF req.sym = "shm_alloc" /\ alloc(ar, req.size, req.align).err = "" THEN 2 ELSE 1

\* poll_state that leaves the slot in the table after handing the result over.
poll_state_keeps_slot(reg, shr, mb, state_id, task_id) ==
  IF ~future_state(reg, state_id)
  THEN [ kerr |-> "", res |-> Err("NotFound"), taken |-> FALSE,
         registry |-> reg, shared |-> shr, mailbox |-> mb ]
  ELSE LET f1 == register_waker(shr[state_id], task_id) IN
       IF ~has_result(f1)
       THEN [ kerr |-> "", res |-> Err("WouldBlock"), taken |-> FALSE,
              registry |-> reg, shared |-> [shr EXCEPT ![state_id] = f1],
              mailbox |-> mb ]
       ELSE [ kerr |-> "", res |-> result_of(f1), taken |-> TRUE,
              registry |-> reg,
              shared |-> [shr EXCEPT ![state_id] = take_result(f1)],
              mailbox |-> mb ]

\* poll_state that registers the waker before it looks the slot up.
poll_state_registers_first(reg, shr, mb, state_id, task_id) ==
  LET shr1 == [s \in DOMAIN shr |-> register_waker(shr[s], task_id)] IN
  IF ~future_state(reg, state_id)
  THEN [ kerr |-> "", res |-> Err("NotFound"), taken |-> FALSE,
         registry |-> reg, shared |-> shr1, mailbox |-> mb ]
  ELSE LET f1 == shr1[state_id] IN
       IF ~has_result(f1)
       THEN [ kerr |-> "", res |-> Err("WouldBlock"), taken |-> FALSE,
              registry |-> reg, shared |-> shr1, mailbox |-> mb ]
       ELSE [ kerr |-> "", res |-> result_of(f1), taken |-> TRUE,
              registry |-> remove_future(reg, state_id),
              shared |-> [shr1 EXCEPT ![state_id] = take_result(f1)],
              mailbox |-> mb ]

\* Operation::poll_state.  Returns [kerr, res, taken, registry, shared, mailbox]:
\* kerr is the KernelError the call fails with ("" if none), res the guest result,
\* taken whether take_result handed over a stored result.
poll_state(reg, shr, mb, state_id, task_id) ==
  LET mb1 == refresh_mailbox(mb) IN
  IF ~future_state(reg, state_id)
  THEN [ kerr |-> "", res |-> Err("NotFound"), taken |-> FALSE,
         registry |-> reg, shared |-> shr, mailbox |-> mb1 ]
  ELSE IF ~mb1.bound
  THEN [ kerr |-> "Driver", res |-> Err("Kernel"), taken |-> FALSE,
         registry |-> reg, shared |-> shr, mailbox |-> mb1 ]
  ELSE LET f1 == register_waker(shr[state_id], task_id) IN
       IF ~has_result(f1)
       THEN [ kerr |-> "", res |-> Err("WouldBlock"), taken |-> FALSE,
              registry |-> reg, shared |-> [shr EXCEPT ![state_id] = f1],
              mailbox |-> mb1 ]
       ELSE [ kerr |-> "", res |-> result_of(f1), taken |-> TRUE,
              registry |-> remove_future(reg, state_id),
              shared |-> [shr EXCEPT ![state_id] = take_result(f1)],
              mailbox |-> mb1 ]

\* drop_state that removes the slot and leaves the shared state as it was.
drop_state_no_abandon(reg, shr, state_id) ==
  IF future_state(reg, state_id)
  THEN [ res |-> Ok(<<>>), removed |-> TRUE,
         registry |-> remove_future(reg, state_id), shared |-> shr ]
  ELSE [ res |-> Err("NotFound"), removed |-> FALSE, registry |-> reg, shared |-> shr ]

\* drop_state that, for a missing slot, abandons every state still in the table.
drop_state_sweeps(reg, shr, state_id) ==
  IF future_state(reg, state_id)
  THEN [ res |-> Ok(<<>>), removed |-> TRUE,
         registry |-> remove_future(reg, state_id),
         shared |-> [shr EXCEPT ![state_id] = abandon(shr[state_id])] ]
  ELSE [ res |-> Err("NotFound"), removed |-> FALSE, registry |-> reg,
         shared |-> [s \in DOMAIN shr |->
                       IF future_state(reg, s) THEN abandon(shr[s]) ELSE shr[s]] ]

\* Operation::drop_state.  Returns [res, removed, registry, shared].
drop_state(reg, shr, state_id) ==
  IF future_state(reg, state_id)
  THEN [ res |-> Ok(<<>>), removed |-> TRUE,
         registry |-> remove_future(reg, state_id),
         shared |-> [shr EXCEPT ![state_id] = abandon(shr[state_id])] ]
  ELSE [ res |-> Err("NotFound"), removed |-> FALSE, registry |-> reg, shared |-> shr ]

\* ------------------------------------------------------------ guest results
\* The status a hook hands back, and what it wrote into the result buffer.
\* kind: "pending", "ready" (len bytes written), "error" (code), or "trap" (the
\* hook failed with the KernelError in code).
Status(kind, len, code) == [kind |-> kind, len |-> len, code |-> code]
NoBuf == [written |-> FALSE, bytes |-> <<>>, msg |-> ""]

\* write_encoded: the bytes fit the capacity or the call fails.  The result
\* pointer lies inside the guest memory.
write_encoded(capacity, len) ==
  IF capacity < len THEN Status("trap", 0, "MemoryCapacity") ELSE Status("ready", len, "")

\* encode_for_guest that reports every error as pending.
encode_for_guest_pending(error, capacity) ==
  [status |-> Status("pending", 0, ""), buf |-> NoBuf]

\* encode_for_guest
encode_for_guest(error, capacity) ==
  IF error = "WouldBlock" THEN [status |-> Status("pending", 0, ""), buf |-> NoBuf]
  ELSE LET w == write_encoded(capacity, Len(ErrorMessage(error))) IN
       IF w.kind = "trap" THEN [status |-> w, buf |-> NoBuf]
       ELSE [ status |-> Status("error", 0, "DRIVER_ERROR_MESSAGE_CODE"),
              buf |-> [written |-> TRUE, bytes |-> <<>>, msg |-> ErrorMessage(error)] ]

\* write_poll_result
write_poll_result(capacity, result) ==
  IF result.ok
  THEN LET w == write_encoded(capacity, Len(result.bytes)) IN
       IF w.kind = "trap" THEN [status |-> w, buf |-> NoBuf]
       ELSE [status |-> w, buf |-> [written |-> TRUE, bytes |-> result.bytes, msg |-> ""]]
  ELSE encode_for_guest(result.err, capacity)

\* -------------------------------------------------------------------- hooks
HandleIds == SlotIds           \* state ids a guest may pass

\* The poll hook's body: poll_state, then write_poll_result; a KernelError of
\* poll_state fails the call before anything is written.
poll_hook(reg, shr, mb, state_id, task_id, capacity) ==
  LET p == poll_state(reg, shr, mb, state_id, task_id)
      w == IF p.kerr # "" THEN [status |-> Status("trap", 0, p.kerr), buf |-> NoBuf]
           ELSE write_poll_result(capacity, p.res)
  IN [ status |-> w.status, buf |-> w.buf, res |-> p.res, taken |-> p.taken,
       registry |-> p.registry, shared |-> p.shared, mailbox |-> p.mailbox ]

\* What a poll that took the result did with it: "consumed" (payload written),
\* "failed" (error message written), "blocked" (a stored WouldBlock reported as
\* pending), "lost" or "lost_error" (the call failed, nothing written).
poll_outcome(h) ==
  CASE h.status.kind = "ready"   -> "consumed"
    [] h.status.kind = "error"   -> "failed"
    [] h.status.kind = "pending" -> "blocked"
    [] OTHER -> IF h.res.ok THEN "lost" ELSE "lost_error"

\* The drop hook's body: drop_state, then write_poll_result.
drop_hook(reg, shr, state_id, capacity) ==
  LET d == drop_state(reg, shr, state_id)
      w == write_poll_result(capacity, d.res)
  IN [ status |-> w.status, buf |-> w.buf, res |-> d.res, removed |-> d.removed,
       registry |-> d.registry, shared |-> d.shared ]

Init ==
  /\ registry = NewRegistry(SlotIds)
  /\ arena = NewArena
  /\ shared = [s \in SlotIds |-> NoFuture]
  /\ tasks = [s \in SlotIds |-> NoTask]
  /\ clock = 0
  /\ mailbox = [bound |-> TRUE, signalled |-> {}]
  /\ life = [h \in HandleIds |-> "never"]
  /\ delivered = [h \in HandleIds |-> 0]
  /\ resolves = [s \in SlotIds |-> 0]
  /\ dropAt = [h \in HandleIds |-> "live"]
  /\ childOf = [h \in HandleIds |-> -1]
  /\ single = NoSingle
  /\ host = NoHost

\* The create hook: decode the input, then create_with_input; returns the handle.
CreateHook ==
  \E req \in Requests :
    /\ registry.nextSlot + slots_needed(arena, req) <= MaxSlots
    /\ LET c == create_with_input(registry, arena, shared, tasks, req) IN
       /\ registry' = c.registry
       /\ arena' = c.arena
       /\ shared' = c.shared
       /\ tasks' = c.tasks
       /\ life' = [life EXCEPT ![c.handle] = "live"]
    /\ UNCHANGED <<host, childOf, single, clock, mailbox, delivered, resolves, dropAt>>

\* The poll hook.  A result taken from the state is either written into guest
\* memory (delivered) or lost with the failed call.
PollCall(state_id, task_id, capacity) ==
  LET h == poll_hook(registry, shared, mailbox, state_id, task_id, capacity)
      handed == h.taken /\ h.status.kind \in {"ready", "error"}
  IN /\ registry' = h.registry
     /\ shared' = h.shared
     /\ mailbox' = h.mailbox
     /\ life' = IF ~h.taken THEN life
                ELSE [life EXCEPT ![state_id] = poll_outcome(h)]
     /\ delivered' = IF handed THEN [delivered EXCEPT ![state_id] = @ + 1] ELSE delivered
     /\ UNCHANGED <<host, childOf, single, arena, tasks, clock, resolves, dropAt>>

PollHook ==
  \E state_id \in HandleIds, task_id \in TaskIds, capacity \in Capacities :
    PollCall(state_id, task_id, capacity)

\* Was the future a sleep whose wait had not yet run to its end?
sleep_waiting(t, clk) ==
  /\ t.pc \in {"spawned", "sleeping"}
  /\ t.fut.kind = "sleep"
  /\ t.pc = "spawned" \/ clk < t.deadline

\* The drop hook.
DropHook ==
  \E state_id \in HandleIds, capacity \in Capacities :
    LET h == drop_hook(registry, shared, state_id, capacity) IN
    /\ registry' = h.registry
    /\ shared' = h.shared
    /\ life' = IF h.removed THEN [life EXCEPT ![state_id] = "dropped"] ELSE life
    /\ dropAt' =
         IF ~h.removed THEN dropAt
         ELSE IF shared[state_id].st # "Pending" THEN [dropAt EXCEPT ![state_id] = "resolved"]
         ELSE IF sleep_waiting(tasks[state_id], clock)
         THEN [dropAt EXCEPT ![state_id] = "waiting"]
         ELSE [dropAt EXCEPT ![state_id] = "pending"]
    /\ UNCHANGED <<host, childOf, single, arena, tasks, clock, mailbox, delivered, resolves>>

\* The executor runs the task of slot s.
ExecutorStep(s) ==
  LET r == run_task(tasks[s], shared[s], clock) IN
  /\ tasks' = [tasks EXCEPT ![s] = r.task]
  /\ shared' = [shared EXCEPT ![s] = r.state]
  /\ mailbox' = signal(mailbox, r.wakes)
  /\ resolves' = [resolves EXCEPT ![s] = @ + r.resolved]
  /\ UNCHANGED <<host, childOf, single, registry, arena, clock, life, delivered, dropAt>>

\* First run of a spawned task.
TaskRun ==
  \E s \in DOMAIN tasks :
    /\ tasks[s].pc = "spawned"
    /\ tasks[s].fut.kind \notin {"process_start", "process_stop"}
    /\ ExecutorStep(s)

\* A sleeping task resumes once its timer has elapsed.
TaskWake ==
  \E s \in DOMAIN tasks :
    tasks[s].pc = "sleeping" /\ task_ready(tasks[s], clock) /\ ExecutorStep(s)

\* The host clock advances.
Tick ==
  /\ clock < MaxClock
  /\ clock' = clock + 1
  /\ UNCHANGED <<host, childOf, single, registry, arena, shared, tasks, mailbox, life, delivered,
                 resolves, dropAt>>

Next ==
  \/ CreateHook
  \/ PollHook
  \/ DropHook
  \/ TaskRun
  \/ TaskWake
  \/ Tick

Spec == Init /\ [][Next]_vars

\* ------------------------------------------------------------- session runs
\* An instance whose registry holds two sessions the host inserted: a root
\* bootstrapped with SessionLifecycle (slot 0) and one bootstrapped with no
\* entitlements (slot 1).  Its guest makes session hostcalls one at a time,
\* polling each future once the task has resolved it.
InitSession ==
  /\ registry =
       insert_session(
         insert_session(NewRegistry(SessionSlotIds), bootstrap({"SessionLifecycle"}, 0)),
         bootstrap({}, 0))
  /\ arena = NewArena
  /\ shared = [s \in SessionSlotIds |-> NoFuture]
  /\ tasks = [s \in SessionSlotIds |-> NoTask]
  /\ clock = 0
  /\ mailbox = [bound |-> TRUE, signalled |-> {}]
  /\ life = [h \in SessionSlotIds |-> "never"]
  /\ delivered = [h \in SessionSlotIds |-> 0]
  /\ resolves = [s \in SessionSlotIds |-> 0]
  /\ dropAt = [h \in SessionSlotIds |-> "live"]
  /\ childOf = [h \in SessionSlotIds |-> -1]
  /\ single = NoSingle
  /\ host = NoHost

\* Session hostcalls made so far, and whether one is still in flight.
calls_made == Cardinality({s \in DOMAIN life : life[s] # "never"})
in_flight == \E s \in DOMAIN life : life[s] = "live"

\* The guest awaits the future of one session call before it makes the next.
can_call == calls_made < MaxCalls /\ ~in_flight

\* The create hook of a session operation.
SessionCall(req) ==
  /\ \E c \in {create_with_input(registry, arena, shared, tasks, req)} :
     /\ registry' = c.registry
     /\ arena' = c.arena
     /\ shared' = c.shared
     /\ tasks' = c.tasks
     /\ life' = [life EXCEPT ![c.handle] = "live"]
     /\ childOf' = IF req.sym = "session_create" /\ c.tasks[c.handle].fut.err = ""
                   THEN [childOf EXCEPT ![c.tasks[c.handle].fut.out.a] = req.session_id]
                   ELSE childOf
  /\ UNCHANGED <<host, single, clock, mailbox, delivered, resolves, dropAt>>

SessionCreate ==
  can_call /\ \E req \in SessionRequests(registry, "session_create") : SessionCall(req)
SessionRemove ==
  can_call /\ \E req \in SessionRequests(registry, "session_remove") : SessionCall(req)
SessionAddEntitlement ==
  can_call /\ \E req \in SessionRequests(registry, "session_add_entitlement") : SessionCall(req)
SessionRmEntitlement ==
  can_call /\ \E req \in SessionRequests(registry, "session_rm_entitlement") : SessionCall(req)
SessionAddResource ==
  can_call /\ \E req \in SessionRequests(registry, "session_add_resource") : SessionCall(req)
SessionRmResource ==
  can_call /\ \E req \in SessionRequests(registry, "session_rm_resource") : SessionCall(req)

\* The guest polls the future of its call once the task has resolved it.
SessionPoll ==
  \E state_id \in DOMAIN life, task_id \in TaskIds :
    /\ life[state_id] = "live"
    /\ has_result(shared[state_id])
    /\ PollCall(state_id, task_id, MaxCapacity)

NextSession ==
  \/ SessionCreate
  \/ SessionRemove
  \/ SessionAddEntitlement
  \/ SessionRmEntitlement
  \/ SessionAddResource
  \/ SessionRmResource
  \/ TaskRun
  \/ SessionPoll

SpecSession == InitSession /\ [][NextSession]_vars

\* ----------------------------------------------------------- singleton runs
\* An instance with no sessions whose guest makes singleton hostcalls one at a
\* time, while the host adds, shares and removes resources and two other host
\* threads call the singleton service on the same process-wide registry.
InitSingleton ==
  /\ registry = NewRegistry(SessionSlotIds)
  /\ arena = NewArena
  /\ shared = [s \in SessionSlotIds |-> NoFuture]
  /\ tasks = [s \in SessionSlotIds |-> NoTask]
  /\ clock = 0
  /\ mailbox = [bound |-> TRUE, signalled |-> {}]
  /\ life = [h \in SessionSlotIds |-> "never"]
  /\ delivered = [h \in SessionSlotIds |-> 0]
  /\ resolves = [s \in SessionSlotIds |-> 0]
  /\ dropAt = [h \in SessionSlotIds |-> "live"]
  /\ childOf = [h \in SessionSlotIds |-> -1]
  /\ single = NoSingle
  /\ host = NoHost

\* A register that succeeded for id, naming resource rid, enters the history.
won(sg, id, rid) ==
  [sg EXCEPT !.wins[id] = @ + 1,
             !.first[id] = IF sg.first[id] = -1 THEN rid ELSE sg.first[id]]

\* The host adds a resource to the instance (registry insert, kind Other).
AddResource ==
  /\ single.added < MaxResources
  /\ registry' = insert(registry, "Other", 0, 0)
  /\ single' = [single EXCEPT !.added = @ + 1]
  /\ UNCHANGED <<host, arena, shared, tasks, clock, mailbox, life, delivered, resolves,
                 dropAt, childOf>>

\* The host mints (or finds) the shared handle of a live resource.
ShareResource ==
  \E rid \in DOMAIN registry.resources :
    /\ registry.resources[rid].kind = "Other"
    /\ alias_of(registry, rid) = -1
    /\ registry' = share_handle(registry, rid)
    /\ UNCHANGED <<host, arena, shared, tasks, clock, mailbox, life, delivered, resolves,
                   dropAt, childOf, single>>

\* The host removes a resource.
RemoveResource ==
  \E slot \in DOMAIN registry.slots :
    /\ registry.slots[slot].kind = "Other"
    /\ registry' = remove_resource(registry, slot)
    /\ UNCHANGED <<host, arena, shared, tasks, clock, mailbox, life, delivered, resolves,
                   dropAt, childOf, single>>

\* The create hook of a singleton operation.
SingletonCall(req) ==
  \E c \in {create_with_input(registry, arena, shared, tasks, req)} :
  /\ registry' = c.registry
  /\ arena' = c.arena
  /\ shared' = c.shared
  /\ tasks' = c.tasks
  /\ life' = [life EXCEPT ![c.handle] = "live"]
  /\ single' = IF req.sym = "singleton_register" /\ c.tasks[c.handle].fut.err = ""
               THEN won(single, req.id, resolve_shared(registry, req.resource))
               ELSE single
  /\ UNCHANGED <<host, clock, mailbox, delivered, resolves, dropAt, childOf>>

\* The guest awaits the future of one singleton call before it makes the next.
can_call_singleton == calls_made < MaxSingletonCalls /\ ~in_flight

SingletonRegister ==
  can_call_singleton /\ \E req \in SingletonRequests(registry, "singleton_register") : SingletonCall(req)
SingletonLookup ==
  can_call_singleton /\ \E req \in SingletonRequests(registry, "singleton_lookup") : SingletonCall(req)

\* A host thread enters SingletonRegistryService::register: the existence check
\* of the resource (registry.metadata).
PeerRegisterCheck ==
  \E c \in Callers, id \in DependencyIds, rid \in 0 .. registry.nextRid :
    /\ single.calls[c].pc = "idle"
    /\ single' = [single EXCEPT !.calls[c] =
                     IF metadata(registry, rid)
                     THEN [pc |-> "checked", id |-> id, resource |-> rid, err |-> ""]
                     ELSE [NoCall EXCEPT !.pc = "done", !.err = "NotFound"]]
    /\ UNCHANGED <<host, registry, arena, shared, tasks, clock, mailbox, life, delivered,
                   resolves, dropAt, childOf>>

\* The thread goes on: registry.register_singleton, then the result.
PeerRegisterInsert ==
  \E c \in Callers :
    LET call == single.calls[c]
        r == register_singleton(registry, call.id, call.resource)
    IN /\ call.pc = "checked"
       /\ registry' = r.registry
       /\ single' =
            IF r.inserted
            THEN won([single EXCEPT !.calls[c] = [NoCall EXCEPT !.pc = "done"]],
                     call.id, call.resource)
            ELSE [single EXCEPT !.calls[c] =
                    [NoCall EXCEPT !.pc = "done", !.err = "StableIdExists"]]
       /\ UNCHANGED <<host, arena, shared, tasks, clock, mailbox, life, delivered, resolves,
                      dropAt, childOf>>

NextSingleton ==
  \/ AddResource
  \/ ShareResource
  \/ RemoveResource
  \/ SingletonRegister
  \/ SingletonLookup
  \/ PeerRegisterCheck
  \/ PeerRegisterInsert
  \/ TaskRun
  \/ SessionPoll

SpecSingleton == InitSingleton /\ [][NextSingleton]_vars

\* -------------------------------------------------------- shared-memory runs
\* An instance with no sessions whose guest makes shared-memory hostcalls one at
\* a time, while a thread of another instance writes to the regions of the same
\* arena: it takes the allocations mutex, copies its bytes one by one, and lets
\* the mutex go.
InitShm ==
  /\ registry = NewRegistry(ShmSlotIds)
  /\ arena = NewArena
  /\ shared = [s \in ShmSlotIds |-> NoFuture]
  /\ tasks = [s \in ShmSlotIds |-> NoTask]
  /\ clock = 0
  /\ mailbox = [bound |-> TRUE, signalled |-> {}]
  /\ life = [h \in ShmSlotIds |-> "never"]
  /\ delivered = [h \in ShmSlotIds |-> 0]
  /\ resolves = [s \in ShmSlotIds |-> 0]
  /\ dropAt = [h \in ShmSlotIds |-> "live"]
  /\ childOf = [h \in ShmSlotIds |-> -1]
  /\ single = NoSingle
  /\ host = NoHost

\* The bytes of a region after the writes made to it so far, one after another:
\* `bytes` laid over `old` from position `offset`.
last_write(old, offset, bytes) ==
  [i \in 1 .. Len(old) |->
     IF offset < i /\ i <= offset + Len(bytes) THEN bytes[i - offset] ELSE old[i]]

\* Does the request reach allocations.lock()?
takes_lock(reg, ar, req) ==
  CASE req.sym = "shm_alloc" -> alloc(ar, req.size, req.align).err = ""
    [] req.sym \in {"shm_read", "shm_write"} ->
         LET l == local_region(reg, req.resource_id) IN
         /\ l.err = ""
         /\ checked_bounds(l.region.len, req.offset,
                           IF req.sym = "shm_read" THEN req.len ELSE Len(req.bytes))
    [] OTHER -> FALSE

\* The history of the call: the request and its result, the bytes a new region
\* starts with, the bytes a write leaves, and what a read returned next to what
\* it had to return.
shm_history(h0, reg, req, fut) ==
  LET h == [h0 EXCEPT !.call = [req |-> req, err |-> fut.err,
                                offset |-> fut.out.c, len |-> fut.out.d]] IN
  IF fut.err # "" THEN h
  ELSE CASE req.sym = "shm_alloc" ->
              [h EXCEPT !.shadow[fut.out.c] = [i \in 1 .. fut.out.d |-> 0]]
         [] req.sym = "shm_write" ->
              LET o == local_region(reg, req.resource_id).region.offset IN
              [h EXCEPT !.shadow[o] = last_write(@, req.offset, req.bytes)]
         [] req.sym = "shm_read" ->
              LET o == local_region(reg, req.resource_id).region.offset IN
              [h EXCEPT !.seen =
                 [ got  |-> encode_rkyv(fut.out),
                   want |-> SubSeq(h.shadow[o], req.offset + 1, req.offset + req.len) ]]
         [] OTHER -> h

\* The create hook of a shared-memory operation; a call that needs the
\* allocations mutex waits until it is free.
ShmCall(req) ==
  /\ takes_lock(registry, arena, req) => lock_free(host)
  /\ \E c \in {create_with_input(registry, arena, shared, tasks, req)} :
     /\ registry' = c.registry
     /\ arena' = c.arena
     /\ shared' = c.shared
     /\ tasks' = c.tasks
     /\ life' = [life EXCEPT ![c.handle] = "live"]
     /\ host' = shm_history(host, registry, req, c.tasks[c.handle].fut)
  /\ UNCHANGED <<childOf, single, clock, mailbox, delivered, resolves, dropAt>>

\* The guest awaits the future of one call before it makes the next.
can_call_shm == calls_made < MaxShmCalls /\ ~in_flight

ShmAlloc == can_call_shm /\ \E req \in ShmRequests(registry, "shm_alloc") : ShmCall(req)
ShmAttach == can_call_shm /\ \E req \in ShmRequests(registry, "shm_attach") : ShmCall(req)
ShmRead == can_call_shm /\ \E req \in ShmRequests(registry, "shm_read") : ShmCall(req)
ShmWrite == can_call_shm /\ \E req \in ShmRequests(registry, "shm_write") : ShmCall(req)

\* The other thread enters SharedMemoryDriver::write on a region it holds: the
\* bounds check, the mutex, the lookup of the allocation.
PeerWriteBegin ==
  \E a \in arena.allocations, at \in {0, 1}, bytes \in WritePayloads :
    LET region == [offset |-> a.offset, len |-> a.len] IN
    /\ host.write.pc = "idle"
    /\ write(arena, region, at, bytes).err = ""
    /\ lock_free(host)
    /\ host' = [host EXCEPT !.lock = 1,
                            !.write = [pc |-> "copying", region |-> region, at |-> at,
                                       bytes |-> bytes, done |-> 0]]
    /\ UNCHANGED <<registry, arena, shared, tasks, clock, mailbox, life, delivered,
                   resolves, dropAt, childOf, single>>

\* copy_from_slice moves the next byte.
PeerWriteByte ==
  LET w == host.write IN
  /\ w.pc = "copying"
  /\ w.done < Len(w.bytes)
  /\ arena' = write(arena, w.region, w.at + w.done, <<w.bytes[w.done + 1]>>).arena
  /\ host' = [host EXCEPT !.write.done = @ + 1]
  /\ UNCHANGED <<registry, shared, tasks, clock, mailbox, life, delivered, resolves,
                 dropAt, childOf, single>>

\* The copy is complete: the guard is dropped and the write returns.
PeerWriteEnd ==
  LET w == host.write IN
  /\ w.pc = "copying"
  /\ w.done = Len(w.bytes)
  /\ host' = [host EXCEPT !.lock = 0,
                          !.write = NoWrite,
                          !.shadow[w.region.offset] = last_write(@, w.at, w.bytes)]
  /\ UNCHANGED <<registry, arena, shared, tasks, clock, mailbox, life, delivered,
                 resolves, dropAt, childOf, single>>

NextShm ==
  \/ ShmAlloc
  \/ ShmAttach
  \/ ShmRead
  \/ ShmWrite
  \/ PeerWriteBegin
  \/ PeerWriteByte
  \/ PeerWriteEnd
  \/ TaskRun
  \/ SessionPoll

SpecShm == InitShm /\ [][NextShm]_vars

\* ------------------------------------------------------------- detach runs
\* One guest allocating regions, attaching them again through their shared
\* handles, and detaching slots.
InitDetach == InitShm

ShmDetach == can_call_shm /\ \E req \in ShmRequests(registry, "shm_detach") : ShmCall(req)

NextDetach ==
  \/ ShmAlloc
  \/ ShmAttach
  \/ ShmDetach
  \/ TaskRun
  \/ SessionPoll

SpecDetach == InitDetach /\ [][NextDetach]_vars

\* -------------------------------------------------------------- process runs
\* An instance with a root session (slot 0) whose guest creates and removes
\* sessions and starts and stops processes, one call at a time.  A process may
\* be handed one resource of the caller as its entrypoint argument; the engine
\* registers it in the instance of the new process.
InitProcess ==
  /\ registry = insert_session(NewRegistry(SessionSlotIds), bootstrap({"SessionLifecycle"}, 0))
  /\ arena = NewArena
  /\ shared = [s \in SessionSlotIds |-> NoFuture]
  /\ tasks = [s \in SessionSlotIds |-> NoTask]
  /\ clock = 0
  /\ mailbox = [bound |-> TRUE, signalled |-> {}]
  /\ life = [h \in SessionSlotIds |-> "never"]
  /\ delivered = [h \in SessionSlotIds |-> 0]
  /\ resolves = [s \in SessionSlotIds |-> 0]
  /\ dropAt = [h \in SessionSlotIds |-> "live"]
  /\ childOf = [h \in SessionSlotIds |-> -1]
  /\ single = NoSingle
  /\ host = NoHost

\* The create hook of a process operation.
ProcessCall(req) ==
  /\ \E c \in {create_with_input(registry, arena, shared, tasks, req)} :
     /\ registry' = c.registry
     /\ arena' = c.arena
     /\ shared' = c.shared
     /\ tasks' = c.tasks
     /\ life' = [life EXCEPT ![c.handle] = "live"]
  /\ UNCHANGED <<host, childOf, single, clock, mailbox, delivered, resolves, dropAt>>

ProcessStart ==
  can_call /\ \E req \in ProcessRequests(registry, "process_start") : ProcessCall(req)
ProcessStop ==
  can_call /\ \E req \in ProcessRequests(registry, "process_stop") : ProcessCall(req)

\* The spawned closure hands the block's result to shared.resolve.
Resolve(s, err, out) ==
  /\ tasks' = [tasks EXCEPT ![s] = DoneTask]
  /\ shared' = [shared EXCEPT ![s] =
                  resolve(@, IF err = "" THEN Ok(encode_rkyv(out)) ELSE Err(err))]
  /\ mailbox' = signal(mailbox, resolve_wakes(shared[s]))
  /\ resolves' = [resolves EXCEPT ![s] = @ + 1]

\* The start block ends at `preparation?`.
StartRefused ==
  \E s \in DOMAIN tasks :
    /\ tasks[s].pc = "spawned"
    /\ tasks[s].fut.kind = "process_start"
    /\ tasks[s].fut.err # ""
    /\ Resolve(s, tasks[s].fut.err, Unit)
    /\ UNCHANGED <<host, childOf, single, registry, arena, clock, life, delivered, dropAt>>

\* The start block reserves the process id and awaits inner.start.
StartReserve ==
  \E s \in DOMAIN tasks :
    /\ tasks[s].pc = "spawned"
    /\ tasks[s].fut.kind = "process_start"
    /\ tasks[s].fut.err = ""
    /\ registry' = reserve(registry, "Process")
    /\ tasks' = [tasks EXCEPT ![s].pc = "awaiting"]
    /\ host' = [host EXCEPT !.start =
                  [ pc |-> "starting", slot |-> s, process_id |-> registry.nextRid,
                    resource |-> tasks[s].fut.out.a, before |-> registry.resources ]]
    /\ UNCHANGED <<childOf, single, arena, shared, clock, mailbox, life, delivered,
                   resolves, dropAt>>

\* inner.start returns.  A start that succeeded has made the instance of the
\* process and registered the resource argument in it (materialise_values).
EngineStart ==
  \E started \in BOOLEAN :
    LET st == host.start
        o == start_outcome(registry, st.process_id, started)
    IN /\ st.pc = "starting"
       /\ registry' = o.registry
       /\ Resolve(st.slot, o.err, GuestResourceId(st.process_id))
       /\ host' = [host EXCEPT
                     !.start.pc = IF started THEN "started" ELSE "failed",
                     !.children[st.process_id] = IF started THEN st.resource ELSE @]
       /\ UNCHANGED <<childOf, single, arena, clock, life, delivered, dropAt>>

\* The stop block; the engine's stop, if called, succeeds or fails.  A stopped
\* process drops its instance and with it the slots of the instance.
StopRun ==
  \E s \in DOMAIN tasks, stopped \in BOOLEAN :
    LET handle == tasks[s].fut.out.a
        r == process_stop(registry, handle, stopped)
    IN /\ tasks[s].pc = "spawned"
       /\ tasks[s].fut.kind = "process_stop"
       /\ registry' = r.registry
       /\ Resolve(s, r.err, Unit)
       /\ host' = [host EXCEPT
                     !.stop = [handle |-> handle, err |-> r.err],
                     !.stops[handle] = @ + r.stops,
                     !.children[handle] = IF r.stops = 1 /\ stopped THEN -1 ELSE @]
       /\ UNCHANGED <<childOf, single, arena, clock, life, delivered, dropAt>>

NextProcess ==
  \/ SessionCreate
  \/ SessionRemove
  \/ ProcessStart
  \/ ProcessStop
  \/ StartRefused
  \/ StartReserve
  \/ EngineStart
  \/ StopRun
  \/ TaskRun
  \/ SessionPoll

SpecProcess == InitProcess /\ [][NextProcess]_vars

\* ------------------------------------------------- concurrent alloc runs
\* Host threads calling SharedMemoryDriver::alloc on one arena, each cut at
\* its atomic operations: the load of next_offset, the compare_exchange, and
\* the insert under the allocations mutex.
InitAlloc == InitShm

\* An exchange that stores without comparing.
compare_exchange_stores(mark, current, new) == [ok |-> TRUE, mark |-> new]

\* AtomicU64::compare_exchange(current, new)
compare_exchange(mark, current, new) ==
  IF mark = current THEN [ok |-> TRUE, mark |-> new] ELSE [ok |-> FALSE, mark |-> mark]

\* A thread calls alloc with a size and alignment that pass the checks.
AllocEnter ==
  \E t \in AllocThreads, size \in AllocSizes, align \in AllocAligns :
    /\ host.allocs[t].pc = "idle"
    /\ size # 0
    /\ align # 0 /\ is_power_of_two(align)
    /\ host' = [host EXCEPT !.allocs[t] = [NoAlloc EXCEPT !.pc = "load", !.size = size,
                                                         !.align = align]]
    /\ UNCHANGED futVars /\ UNCHANGED <<childOf, single>>

\* next_offset.load; aligned and end follow; WouldBlock if end is past the arena.
AllocLoad ==
  \E t \in AllocThreads :
    LET a == host.allocs[t]
        aligned == align_up(arena.next_offset, a.align)
        end == aligned + a.size
    IN /\ a.pc = "load"
       /\ host' = IF end > ArenaBytes THEN [host EXCEPT !.allocs[t] = NoAlloc]
                  ELSE [host EXCEPT !.allocs[t] =
                          [a EXCEPT !.pc = "exchange", !.current = arena.next_offset,
                                    !.aligned = aligned, !.end = end]]
       /\ UNCHANGED futVars /\ UNCHANGED <<childOf, single>>

\* next_offset.compare_exchange(current, end): on failure the loop starts over.
AllocExchange ==
  \E t \in AllocThreads :
    LET a == host.allocs[t]
        x == compare_exchange(arena.next_offset, a.current, a.end)
    IN /\ a.pc = "exchange"
       /\ arena' = [arena EXCEPT !.next_offset = x.mark]
       /\ host' = [host EXCEPT !.allocs[t].pc = IF x.ok THEN "insert" ELSE "load"]
       /\ UNCHANGED <<registry, shared, tasks, clock, mailbox, life, delivered,
                      resolves, dropAt, childOf, single>>

\* allocations.lock(), insert(offset, zeroed buffer), return Ok(ShmRegion).
AllocInsert ==
  \E t \in AllocThreads :
    LET a == host.allocs[t] IN
    /\ a.pc = "insert"
    /\ lock_free(host)
    /\ arena' = [arena EXCEPT !.allocations =
                   {b \in @ : b.offset # a.aligned}
                   \cup {[offset |-> a.aligned, len |-> a.size,
                           bytes |-> [i \in 1 .. a.size |-> 0]]}]
    /\ host' = [host EXCEPT !.allocs[t] = NoAlloc,
                            !.granted = Append(@, [offset |-> a.aligned, len |-> a.size])]
    /\ UNCHANGED <<registry, shared, tasks, clock, mailbox, life, delivered,
                   resolves, dropAt, childOf, single>>

NextAlloc ==
  \/ AllocEnter
  \/ AllocLoad
  \/ AllocExchange
  \/ AllocInsert

SpecAlloc == InitAlloc /\ [][NextAlloc]_vars

\* --------------------------------------------------------------- status word
\* The word a hook returns, scaled down from 32 bits: the lower half of the
\* word space carries ready lengths, the upper half error codes.
HalfSpace == 64
DRIVER_RESULT_PENDING == 0
DRIVER_ERROR_MESSAGE_CODE == 1
ReservedCodes == {DRIVER_ERROR_MESSAGE_CODE, 2}

\* driver_encode_ready(n): the word n, None (-1) outside the lower half.
driver_encode_ready(n) == IF n < HalfSpace THEN n ELSE -1

\* driver_encode_error(code): a word of the upper half.
driver_encode_error(code) == HalfSpace + code

\* driver_decode_result(word)
driver_decode_result(word) ==
  IF word = DRIVER_RESULT_PENDING THEN [kind |-> "Pending", value |-> 0]
  ELSE IF word < HalfSpace THEN [kind |-> "Ready", value |-> word]
  ELSE [kind |-> "Error", value |-> word - HalfSpace]

\* The word a hook returns for a status: DRIVER_RESULT_PENDING, encode_ready_len
\* of the bytes written, or the error-message code; -1 when the call fails.
status_word(status) ==
  CASE status.kind = "pending" -> DRIVER_RESULT_PENDING
    [] status.kind = "ready"   -> driver_encode_ready(status.len)
    [] status.kind = "error"   -> driver_encode_error(DRIVER_ERROR_MESSAGE_CODE)
    [] OTHER                   -> -1

\* DriverFuture::poll_inner: what the guest makes of the word rc.
poll_inner(rc, capacity) ==
  LET r == driver_decode_result(rc) IN
  CASE r.kind = "Pending" -> [poll |-> "Pending", used |-> 0]
    [] r.kind = "Error"   -> [poll |-> "ReadyErr", used |-> 0]
    [] OTHER -> IF r.value > capacity THEN [poll |-> "ReadyErr", used |-> 0]
                ELSE [poll |-> "ReadyOk", used |-> r.value]

\* ------------------------------------------------------- guest stub runs
\* The guest's DriverFuture driving the three hooks of the host: new calls
\* create, poll calls the poll hook while the handle is held, Drop calls the
\* drop hook if the handle is still held.  A hook that fails traps the
\* instance, which runs no further.
InitStub == Init

\* poll_inner that gives up the handle only on a ready word.
stub_poll_keeps_on_error(stub, rc) ==
  LET r == poll_inner(rc, stub.capacity) IN
  [stub EXCEPT !.handle = driver_decode_result(rc).kind # "Ready",
               !.terminal = r.poll # "Pending",
               !.last = r.poll]

\* DriverFuture::poll_inner after M::poll returned the word rc: Pending keeps
\* the handle, every other branch sets it to None.
stub_poll(stub, rc) ==
  LET r == poll_inner(rc, stub.capacity) IN
  [stub EXCEPT !.handle = r.poll = "Pending",
               !.terminal = r.poll # "Pending",
               !.last = r.poll]

\* No hook has failed: the instance is running.
instance_runs == \A f \in SlotIds : host.stubs[f].st # "trapped"

\* DriverFuture::new: M::create, handle Some, the result buffer allocated.
StubNew ==
  \E req \in Requests, capacity \in Capacities :
    /\ instance_runs
    /\ registry.nextSlot + slots_needed(arena, req) <= MaxSlots
    /\ \E c \in {create_with_input(registry, arena, shared, tasks, req)} :
       /\ registry' = c.registry
       /\ arena' = c.arena
       /\ shared' = c.shared
       /\ tasks' = c.tasks
       /\ life' = [life EXCEPT ![c.handle] = "live"]
       /\ host' = [host EXCEPT !.stubs[c.handle] =
                     [NoStub EXCEPT !.st = "live", !.handle = TRUE,
                                    !.capacity = capacity]]
    /\ UNCHANGED <<childOf, single, clock, mailbox, delivered, resolves, dropAt>>

\* Future::poll of a live DriverFuture.
StubPoll ==
  \E f \in SlotIds, task_id \in TaskIds :
    /\ instance_runs
    /\ host.stubs[f].st = "live"
    /\ IF ~host.stubs[f].handle
       THEN /\ host' = [host EXCEPT !.stubs[f].last = "InvalidArgument"]
            /\ UNCHANGED futVars
       ELSE \E h \in {poll_hook(registry, shared, mailbox, f, task_id,
                                 host.stubs[f].capacity)} :
            /\ registry' = h.registry
            /\ shared' = h.shared
            /\ mailbox' = h.mailbox
            /\ life' = IF ~h.taken THEN life ELSE [life EXCEPT ![f] = poll_outcome(h)]
            /\ delivered' = IF h.taken /\ h.status.kind \in {"ready", "error"}
                            THEN [delivered EXCEPT ![f] = @ + 1] ELSE delivered
            /\ host' =
                 [host EXCEPT !.stubs[f] =
                    IF h.status.kind = "trap" THEN [@ EXCEPT !.st = "trapped"]
                    ELSE [stub_poll(@, status_word(h.status)) EXCEPT
                            !.late = IF host.stubs[f].terminal THEN @ + 1 ELSE @]]
            /\ UNCHANGED <<arena, tasks, clock, resolves, dropAt>>
    /\ UNCHANGED <<childOf, single>>

\* Drop for DriverFuture: self.handle.take(), then M::drop on a held handle.
StubDrop ==
  \E f \in SlotIds :
    /\ instance_runs
    /\ host.stubs[f].st = "live"
    /\ IF ~host.stubs[f].handle
       THEN /\ host' = [host EXCEPT !.stubs[f].st = "dropped"]
            /\ UNCHANGED futVars
       ELSE \E h \in {drop_hook(registry, shared, f, host.stubs[f].capacity)} :
            /\ registry' = h.registry
            /\ shared' = h.shared
            /\ life' = IF h.removed THEN [life EXCEPT ![f] = "dropped"] ELSE life
            /\ host' = [host EXCEPT !.stubs[f] =
                          [@ EXCEPT !.st = "dropped", !.handle = FALSE,
                                    !.drops = @ + 1,
                                    !.late = IF host.stubs[f].terminal THEN @ + 1 ELSE @]]
            /\ UNCHANGED <<arena, tasks, clock, mailbox, delivered, resolves, dropAt>>
    /\ UNCHANGED <<childOf, single>>

NextStub ==
  \/ StubNew
  \/ StubPoll
  \/ StubDrop
  \/ TaskRun
  \/ TaskWake
  \/ Tick

SpecStub == InitStub /\ [][NextStub]_vars

\* ----------------------------------------------------------- awaiting runs
\* Each DriverFuture is awaited by a guest task of its own: the task polls the
\* future once when it starts and again each time the mailbox holds the signal
\* of its task id, which the guest clears before the poll.  The host executor
\* runs every task it spawned and the clock advances.
InitAwait == Init

\* r#async::register(cx): the id of the guest task that awaits future f.
await_task(f) == f + 1

\* Is the guest task of future f due a poll?
await_due(f) == host.stubs[f].last = "" \/ await_task(f) \in mailbox.signalled

\* Future::poll of an awaited DriverFuture, by the task a signal woke.
AwaitPoll ==
  \E f \in SlotIds :
    /\ instance_runs
    /\ host.stubs[f].st = "live" /\ host.stubs[f].handle
    /\ await_due(f)
    /\ \E h \in {poll_hook(registry, shared,
                            [mailbox EXCEPT !.signalled = @ \ {await_task(f)}],
                            f, await_task(f), host.stubs[f].capacity)} :
         /\ registry' = h.registry
         /\ shared' = h.shared
         /\ mailbox' = h.mailbox
         /\ life' = IF ~h.taken THEN life ELSE [life EXCEPT ![f] = poll_outcome(h)]
         /\ delivered' = IF h.taken /\ h.status.kind \in {"ready", "error"}
                         THEN [delivered EXCEPT ![f] = @ + 1] ELSE delivered
         /\ host' =
              [host EXCEPT !.stubs[f] =
                 IF h.status.kind = "trap" THEN [@ EXCEPT !.st = "trapped"]
                 ELSE stub_poll(@, status_word(h.status))]
    /\ UNCHANGED <<arena, tasks, clock, resolves, dropAt, childOf, single>>

NextAwait ==
  \/ StubNew
  \/ AwaitPoll
  \/ TaskRun
  \/ TaskWake
  \/ Tick

\* The guest runs a task that is due a poll, the executor a task that can
\* run, and time passes.
SpecAwait ==
  /\ InitAwait /\ [][NextAwait]_vars
  /\ WF_vars(AwaitPoll) /\ WF_vars(TaskRun) /\ WF_vars(TaskWake) /\ WF_vars(Tick)

\* ---------------------------------------------------------- wake-up runs
\* The guest thread's poll hook and the executor's resolve, each cut at the
\* points where the other may run: poll_state registers the waker and then
\* takes the result; resolve stores the result taking the waker out of the
\* state, and then invokes it.
WakeTaskIds == {1, 2}
WakeRequests == { r \in Requests : r.sym \in {"time_now", "time_sleep"} }

InitWake == Init

WakeCreate ==
  \E req \in WakeRequests :
    /\ host.poll.pc = 0
    /\ registry.nextSlot + slots_needed(arena, req) <= MaxSlots
    /\ LET c == create_with_input(registry, arena, shared, tasks, req) IN
       /\ registry' = c.registry
       /\ arena' = c.arena
       /\ shared' = c.shared
       /\ tasks' = c.tasks
       /\ life' = [life EXCEPT ![c.handle] = "live"]
    /\ UNCHANGED <<host, childOf, single, clock, mailbox, delivered, resolves, dropAt>>

\* poll_state that takes the result before it registers the waker.
poll_step_takes_first(f, task_id, pc) ==
  IF pc = 0 THEN take_result(f) ELSE register_waker(f, task_id)

\* The state after call pc of poll_state on it: state.register_waker(waker),
\* then state.take_result().
poll_step(f, task_id, pc) ==
  IF pc = 0 THEN register_waker(f, task_id) ELSE take_result(f)

\* poll_state up to the state's lookup: the slot holds a future and the
\* mailbox mints the waker.
PollEnter ==
  \E state_id \in HandleIds, task_id \in WakeTaskIds :
    /\ host.poll.pc = 0
    /\ future_state(registry, state_id)
    /\ refresh_mailbox(mailbox).bound
    /\ \E f \in {poll_step(shared[state_id], task_id, 0)} :
         /\ shared' = [shared EXCEPT ![state_id] = f]
         /\ host' = [host EXCEPT
              !.poll = [pc |-> 1, state_id |-> state_id, task_id |-> task_id,
                        got |-> IF has_result(shared[state_id]) /\ ~has_result(f)
                                THEN "ready" ELSE "none"],
              !.pend[state_id] = IF @ = task_id THEN @ ELSE 0]
    /\ UNCHANGED <<registry, arena, tasks, clock, mailbox, life, delivered,
                   resolves, dropAt, childOf, single>>

\* The second call on the state and the return of poll_state: WouldBlock if
\* take_result gave nothing, else the slot is removed and the result goes out.
PollReturn ==
  /\ host.poll.pc = 1
  /\ \E p \in {host.poll} :
     \E f \in {poll_step(shared[p.state_id], p.task_id, 1)} :
       LET handed == p.got = "ready" \/ (has_result(shared[p.state_id]) /\ ~has_result(f))
           s == p.state_id
       IN /\ shared' = [shared EXCEPT ![s] = f]
          /\ registry' = IF handed THEN remove_future(registry, s) ELSE registry
          /\ life' = IF handed THEN [life EXCEPT ![s] = "ready"] ELSE life
          /\ delivered' = IF handed THEN [delivered EXCEPT ![s] = @ + 1] ELSE delivered
          /\ host' = [host EXCEPT
               !.poll = NoPoll,
               !.pend[s] = IF handed THEN @ ELSE p.task_id,
               !.pended[s] = IF handed THEN @ ELSE @ \cup {p.task_id}]
  /\ UNCHANGED <<arena, tasks, clock, mailbox, resolves, dropAt, childOf, single>>

\* A sleep task runs up to its timer.
WakeTaskSleep ==
  \E s \in SlotIds :
    /\ tasks[s].pc = "spawned"
    /\ run_task(tasks[s], shared[s], clock).resolved = 0
    /\ ExecutorStep(s)

\* shared.resolve(result), first half: the result is stored and the waker
\* taken out of the state.
ResolveWrite ==
  \E s \in SlotIds :
    /\ task_ready(tasks[s], clock)
    /\ \E r \in {run_task(tasks[s], shared[s], clock)} :
         /\ r.resolved = 1
         /\ shared' = [shared EXCEPT ![s] = r.state]
         /\ tasks' = [tasks EXCEPT ![s] = [r.task EXCEPT !.pc = "waking"]]
         /\ resolves' = [resolves EXCEPT ![s] = @ + 1]
         /\ host' = [host EXCEPT !.waking[s] = r.wakes]
    /\ UNCHANGED <<registry, arena, clock, mailbox, life, delivered, dropAt,
                   childOf, single>>

\* shared.resolve(result), second half: the taken waker is invoked, which
\* signals the mailbox for its task.
ResolveWake ==
  \E s \in SlotIds :
    /\ host.waking[s] >= 0
    /\ mailbox' = signal(mailbox, host.waking[s])
    /\ tasks' = [tasks EXCEPT ![s] = DoneTask]
    /\ host' = [host EXCEPT !.waking[s] = -1,
                            !.woken[s] = @ \cup ({host.waking[s]} \ {0})]
    /\ UNCHANGED <<registry, arena, shared, clock, life, delivered, resolves,
                   dropAt, childOf, single>>

NextWake ==
  \/ WakeCreate
  \/ PollEnter
  \/ PollReturn
  \/ WakeTaskSleep
  \/ ResolveWrite
  \/ ResolveWake
  \/ Tick

SpecWake == InitWake /\ [][NextWake]_vars

\* ----------------------------------------------------------- yield_now runs
\* The guest creates and polls futures, drains its mailbox and parks in
\* yield_now; the executor resolves futures, the instance's mailbox may be
\* closed and the runtime's shutdown notified at any point of the loop.
InitYield == Init

\* WakeMailbox::is_closed, is_signalled.
is_closed(h) == h.yield.closed
is_signalled(mb) == mb.signalled # {}

\* wait_for_signal completes once the mailbox holds a signal or is closed.
signal_ready(mb, h) == is_signalled(mb) \/ is_closed(h)

\* The conditions yield_now returns on, as they hold now.
resume_conditions(mb, h) ==
  {c \in {"closed", "signalled", "shutdown"} :
     \/ c = "closed" /\ is_closed(h)
     \/ c = "signalled" /\ is_signalled(mb)
     \/ c = "shutdown" /\ h.yield.shutdown}

\* yield_now returns to the guest.
resume(mb, h) ==
  [h EXCEPT !.yield.pc = "running", !.yield.notified = FALSE,
            !.yield.resumed = TRUE, !.yield.why = resume_conditions(mb, h)]

\* Can the select of a parked guest complete a branch?
select_ready(mb, h) == h.yield.notified \/ signal_ready(mb, h)

GuestCreate == host.yield.pc = "running" /\ WakeCreate
GuestPoll == host.yield.pc = "running" /\ PollHook

\* The guest clears the signals of its mailbox before it polls its tasks.
GuestDrain ==
  /\ host.yield.pc = "running"
  /\ is_signalled(mailbox)
  /\ mailbox' = [mailbox EXCEPT !.signalled = {}]
  /\ UNCHANGED <<registry, arena, shared, tasks, clock, life, delivered,
                 resolves, dropAt, childOf, single, host>>

\* The guest calls yield_now; the instance has a mailbox.
YieldNow ==
  /\ host.yield.pc = "running"
  /\ mailbox.bound
  /\ host' = [host EXCEPT !.yield.pc = "check"]
  /\ UNCHANGED futVars /\ UNCHANGED <<childOf, single>>

\* if mailbox.is_closed() || mailbox.is_signalled() { break; }
YieldCheck ==
  /\ host.yield.pc = "check"
  /\ host' = IF is_closed(host) \/ is_signalled(mailbox)
             THEN resume(mailbox, host)
             ELSE [host EXCEPT !.yield.pc = "select"]
  /\ UNCHANGED futVars /\ UNCHANGED <<childOf, single>>

\* select! builds shutdown.notified() and mailbox.wait_for_signal(): from
\* here on a notify_waiters() reaches the Notified future.
YieldSelect ==
  /\ host.yield.pc = "select"
  /\ host' = [host EXCEPT !.yield.pc = "parked", !.yield.notified = FALSE]
  /\ UNCHANGED futVars /\ UNCHANGED <<childOf, single>>

\* A branch of the select completes: the shutdown branch breaks out of the
\* loop, the signal branch goes round it.
YieldWake ==
  /\ host.yield.pc = "parked"
  /\ \/ /\ host.yield.notified
        /\ host' = resume(mailbox, host)
     \/ /\ signal_ready(mailbox, host)
        /\ host' = [host EXCEPT !.yield.pc = "check", !.yield.notified = FALSE]
  /\ UNCHANGED futVars /\ UNCHANGED <<childOf, single>>

\* run: shutdown.notify_waiters() after ctrl_c.  No permit is stored: only a
\* Notified future that exists at the call is notified.
ShutdownNotify ==
  /\ ~host.yield.shutdown
  /\ host' = [host EXCEPT !.yield.shutdown = TRUE,
                          !.yield.notified = (host.yield.pc = "parked")]
  /\ UNCHANGED futVars /\ UNCHANGED <<childOf, single>>

\* WakeMailbox::close
MailboxClose ==
  /\ ~host.yield.closed
  /\ host' = [host EXCEPT !.yield.closed = TRUE]
  /\ UNCHANGED futVars /\ UNCHANGED <<childOf, single>>

NextYield ==
  \/ GuestCreate
  \/ GuestPoll
  \/ GuestDrain
  \/ YieldNow
  \/ YieldCheck
  \/ YieldSelect
  \/ YieldWake
  \/ ShutdownNotify
  \/ MailboxClose
  \/ TaskRun
  \/ TaskWake
  \/ Tick

SpecYield == InitYield /\ [][NextYield]_vars

\* ------------------------------------------------------ undelivered results
\* C36: a poll that finds a ready payload or error and cannot write it into
\* the guest buffer leaves the slot and its result in the registry, and a
\* later poll with enough capacity returns what the first could not.
C36_UndeliveredResultKept ==
  \A s \in HandleIds, t \in TaskIds, c \in Capacities :
    (future_state(registry, s) /\ has_result(shared[s])) =>
      LET h == poll_hook(registry, shared, mailbox, s, t, c) IN
      h.status.kind = "trap" =>
        /\ future_state(h.registry, s)
        /\ has_result(h.shared[s])
        /\ result_of(h.shared[s]) = result_of(shared[s])
        /\ \A c2 \in Capacities :
             LET later == poll_hook(h.registry, h.shared, h.mailbox, s, t, c2) IN
             later.status.kind # "trap" =>
               /\ later.buf.written
               /\ shared[s].ok => later.buf.bytes = shared[s].bytes
               /\ ~shared[s].ok => later.buf.msg = ErrorMessage(shared[s].err)

\* ----------------------------------------------------------- guest liveness
\* C35: whenever the host task of a hostcall has terminated, whatever its
\* outcome, the DriverFuture awaited for it, polled on each signal of the
\* mailbox, eventually completes with a value or an error (or the instance has
\* stopped): it does not stay pending for ever.
C35_GuestCompletes ==
  \A f \in SlotIds :
    (host.stubs[f].st = "live" /\ tasks[f].pc = "done")
      ~> (host.stubs[f].terminal \/ host.stubs[f].st # "live")

\* ------------------------------------------------------------- guest stub
\* C37: for every DriverFuture the drop hook is called at most once, and only
\* when the future is dropped with no poll of it having returned ready or
\* error; after such a poll no hook is called on the handle again, a further
\* poll of the future returning InvalidArgument; and while every poll has
\* returned pending the handle is held.
C37_StubProtocol ==
  \A f \in SlotIds :
    LET stub == host.stubs[f] IN
    /\ stub.drops <= 1
    /\ stub.drops = 1 => ~stub.terminal
    /\ stub.late = 0
    /\ stub.terminal => ~stub.handle
    /\ stub.last = "InvalidArgument" => stub.terminal
    /\ (stub.st = "live" /\ ~stub.terminal) => stub.handle

\* A future whose poll returned an error has been polled again, with no hook
\* called, and then dropped, again with no hook called.
C37_Witness ==
  \E f \in SlotIds :
    /\ host.stubs[f].st = "dropped"
    /\ host.stubs[f].terminal
    /\ host.stubs[f].last = "InvalidArgument"
    /\ host.stubs[f].drops = 0

\* ------------------------------------------------------ concurrent alloc
\* Do two regions share a byte?
overlap(a, b) == a.offset < b.offset + b.len /\ b.offset < a.offset + a.len

\* C34: whatever the interleaving of concurrent allocs, the regions returned
\* are pairwise disjoint, lie inside the arena and have distinct offsets, each
\* is the one allocation stored under its offset, and the high-water mark
\* never decreases.
C34_AllocsDisjoint ==
  /\ [](\A i, j \in 1 .. Len(host.granted) :
          /\ host.granted[i].offset + host.granted[i].len <= ArenaBytes
          /\ i # j => /\ ~overlap(host.granted[i], host.granted[j])
                      /\ host.granted[i].offset # host.granted[j].offset
          /\ \E a \in arena.allocations :
               a.offset = host.granted[i].offset /\ a.len = host.granted[i].len)
  /\ [][arena'.next_offset >= arena.next_offset]_vars

\* Two allocs have returned, the second region after the first, and a thread
\* whose compare_exchange failed, the other thread having moved the mark, is
\* about to load the mark again.
C34_Witness ==
  /\ Len(host.granted) = 2
  /\ host.granted[2].offset >= host.granted[1].offset + host.granted[1].len
  /\ \E t \in AllocThreads : host.allocs[t].pc = "load" /\ host.allocs[t].end # 0

\* ------------------------------------------------------------------ detach
\* The slots of the instance, other than k, that name resource rid.
slots_of(reg, rid, k) ==
  {j \in DOMAIN reg.slots : j # k /\ entry(reg, j) = rid}

resolve_done(s) == resolves[s] > 0 /\ host.waking[s] = -1

\* C31, as stated: every task whose poll of a slot returned pending is
\* signalled by the resolve of the slot.
C31_EveryPendingPollWoken ==
  \A s \in SlotIds :
    resolve_done(s) =>
      host.pended[s] \subseteq (host.woken[s] \cap mailbox.signalled)

\* C31, amended: no wake-up is lost to an interleaving.  The task whose poll
\* of a slot returned pending, no other task having begun a poll of the slot
\* since, has its waker invoked and its mailbox signal set by the resolve of
\* the slot, wherever the steps of the resolve fall among those of the poll.
C31_NoLostWakeup ==
  \A s \in SlotIds :
    (resolve_done(s) /\ host.pend[s] # 0) =>
      /\ host.pend[s] \in host.woken[s]
      /\ host.pend[s] \in mailbox.signalled

\* The resolve of a slot has run to its end after a poll of the slot returned
\* pending, and the polling task has been woken.
C31_Witness ==
  \E s \in SlotIds :
    /\ resolve_done(s)
    /\ host.pend[s] # 0
    /\ host.pend[s] \in host.woken[s]
    /\ host.poll.pc = 0

\* ------------------------------------------------------------ yield_now
\* C32: yield_now on a bound mailbox returns only when the mailbox is closed,
\* the mailbox is signalled or shutdown has been notified; and once one of
\* these holds, whenever it came about, a guest inside yield_now has its next
\* step to take: a parked guest has a branch of its select ready.
C32_ParksUntilWoken ==
  /\ host.yield.resumed => host.yield.why # {}
  /\ (host.yield.pc = "parked" /\ resume_conditions(mailbox, host) # {}) =>
       select_ready(mailbox, host)

\* ------------------------------------------------------- future life cycle
\* Did the state of slot s hold the result r, not yet taken?
holds_result(s, r) == shared[s].st = "Ready" /\ result_of(shared[s]) = r

\* Does every poll of slot s, whatever the task id and capacity, find no future?
polls_not_found(s) ==
  \A t \in TaskIds, c \in Capacities :
    LET h == poll_hook(registry, shared, mailbox, s, t, c) IN
    h.res = Err("NotFound") /\ ~h.taken

\* C1: once a poll of a future slot has returned a ready result (payload bytes
\* or a terminal error), the slot is gone from the instance registry and every
\* later poll of it returns NotFound; no result is delivered by two polls.
C1_ReadyPollConsumes ==
  /\ \A s \in SlotIds, t \in TaskIds, c \in Capacities :
       LET h == poll_hook(registry, shared, mailbox, s, t, c) IN
       (h.taken /\ h.status.kind \in {"ready", "error"}) =>
         /\ ~future_state(h.registry, s)
         /\ ~has_result(h.shared[s])
  /\ \A s \in SlotIds :
       life[s] \in {"consumed", "failed"} =>
         ~future_state(registry, s) /\ polls_not_found(s)
  /\ \A s \in SlotIds : delivered[s] <= 1

\* A slot whose payload a poll has delivered and one whose terminal error a
\* poll has delivered.
C1_Witness ==
  /\ \E s \in SlotIds : life[s] = "consumed" /\ delivered[s] = 1
  /\ \E s \in SlotIds : life[s] = "failed" /\ delivered[s] = 1

\* C2: when the task of a future has resolved with Err(WouldBlock) and the guest
\* polls the slot, the poll returns pending and keeps the state: the slot stays
\* in the registry and the next poll of it does not return NotFound.
C2_WouldBlockKeepsState ==
  \A s \in SlotIds, t \in TaskIds, c \in Capacities :
    (future_state(registry, s) /\ holds_result(s, Err("WouldBlock"))) =>
      LET h == poll_hook(registry, shared, mailbox, s, t, c) IN
      /\ h.status.kind = "pending"
      /\ future_state(h.registry, s)
      /\ poll_hook(h.registry, h.shared, h.mailbox, s, t, c).res # Err("NotFound")

C4_UnknownSlotNotFound ==
  /\ \A s \in SlotIds, t \in TaskIds :
       life[s] \in {"never", "dropped"} =>
         LET p == poll_state(registry, shared, mailbox, s, t) IN
         /\ p.kerr = "" /\ p.res = Err("NotFound")
         /\ p.registry = registry /\ p.shared = shared /\ p.mailbox = mailbox
  /\ \A s \in SlotIds :
       /\ future_state(registry, s) <=> life[s] = "live"
       /\ life[s] = "live" => shared[s].st \in {"Pending", "Ready"}
       /\ life[s] = "never" => shared[s].st = "None" /\ tasks[s].pc = "none"

\* A dropped slot and an unused slot id beside a live future.
C4_Witness ==
  \E s \in SlotIds, u \in SlotIds :
    /\ life[s] \in {"never", "dropped"}
    /\ life[u] = "live" /\ shared[u].st = "Pending" /\ shared[u].waker = 0

\* C5: a future shared state goes Pending -> Ready at most once: a create spawns
\* one task, the task calls resolve once, and nothing turns a Ready or Abandoned
\* state back to Pending or replaces a stored result.
C5_ReadyAtMostOnce ==
  /\ [](\A s \in SlotIds :
          /\ resolves[s] <= 1
          /\ tasks[s].pc = "done" <=> resolves[s] = 1
          /\ tasks[s].pc # "none" <=> life[s] # "never")
  /\ [][\A s \in SlotIds :
          /\ shared[s].st \in {"Ready", "Consumed", "Abandoned"} => shared'[s].st # "Pending"
          /\ shared'[s].st = "Ready" =>
               \/ shared[s].st = "Pending" /\ resolves'[s] = resolves[s] + 1
               \/ shared[s].st = "Ready" /\ result_of(shared'[s]) = result_of(shared[s])
          /\ shared[s].st = "Abandoned" => shared'[s].st = "Abandoned"]_vars

\* A state resolved by its task and one whose task resolved after the drop.
C5_Witness ==
  /\ \E s \in SlotIds : shared[s].st = "Ready" /\ resolves[s] = 1
  /\ \E s \in SlotIds : dropAt[s] \in {"pending", "waiting"} /\ resolves[s] = 1

\* C6: drop on a live future slot removes the slot, marks the shared state
\* Abandoned and returns ready with an empty payload; afterwards no poll observes
\* the result of the task, whether it was stored before the drop or the task
\* resolves after it.
C6_DropAbandons ==
  /\ \A s \in SlotIds, c \in Capacities :
       future_state(registry, s) =>
         LET h == drop_hook(registry, shared, s, c) IN
         /\ ~future_state(h.registry, s)
         /\ h.shared[s].st = "Abandoned"
         /\ h.status = Status("ready", 0, "") /\ h.buf.bytes = <<>>
  /\ \A s \in SlotIds :
       life[s] = "dropped" =>
         /\ shared[s].st = "Abandoned" /\ ~has_result(shared[s])
         /\ delivered[s] = 0
         /\ polls_not_found(s)

\* Both interleavings: a slot dropped after its task resolved, and a slot
\* dropped before its task resolved.
C6_Witness ==
  /\ \E s \in SlotIds : life[s] = "dropped" /\ dropAt[s] = "resolved"
  /\ \E s \in SlotIds :
       life[s] = "dropped" /\ dropAt[s] \in {"pending", "waiting"} /\ resolves[s] = 1

\* C7: drop on a slot already removed, by an earlier drop or by a poll that took
\* its result, is a no-op: no registry slot, no resource and no future state
\* changes.
C7_DropRemovedNoOp ==
  \A s \in SlotIds :
    life[s] \in {"dropped", "consumed", "failed", "lost", "lost_error", "blocked"} =>
      LET d == drop_state(registry, shared, s) IN
      /\ d.res = Err("NotFound") /\ ~d.removed
      /\ d.registry = registry
      /\ d.shared = shared

\* A dropped slot and a consumed slot, each beside a live future.
C7_Witness ==
  \E s \in SlotIds, u \in SlotIds :
    /\ life[s] \in {"dropped", "consumed", "failed"}
    /\ life[u] = "live"

\* C8: after the guest drops the slot of a time.sleep future whose wait is still
\* running, the task terminates without running the wait to its end and without
\* writing a ready value, and a later poll of the slot returns NotFound.
C8_DropAbortsSleep ==
  \A s \in SlotIds :
    dropAt[s] = "waiting" =>
      /\ tasks[s].pc # "done"
      /\ ~has_result(shared[s])
      /\ polls_not_found(s)

\* ------------------------------------------------------ session capabilities
SessionSymbols ==
  { "session_create", "session_remove", "session_add_entitlement",
    "session_rm_entitlement", "session_add_resource", "session_rm_resource" }

\* Does the session under the slot hold the capability (is it in its map)?
holds(reg, slot, cap) == is_session(reg, slot) /\ cap \in session_at(reg, slot).caps

\* C9: every create is validated against the session capability before the
\* driver runs: a create on a symbol whose capability the calling session does
\* not hold runs no driver code and creates no future slot.
C9_CreateValidatesCapability ==
  \A sym \in SessionSymbols :
    \A req \in SessionRequests(registry, sym) :
      (is_session(registry, req.session_id)
         /\ ~holds(registry, req.session_id, Catalogue[sym])) =>
        LET c == create_with_input(registry, arena, shared, tasks, req) IN
        /\ c.registry = registry
        /\ c.shared = shared
        /\ c.tasks = tasks

MutatingSymbols ==
  { "session_add_entitlement", "session_rm_entitlement", "session_add_resource",
    "session_rm_resource", "session_remove" }

\* The session slots of a registry.
sessions_of(reg) == {s \in DOMAIN reg.slots : is_session(reg, s)}

\* C11: for each session-mutating hostcall with caller session P and target T,
\* if P.authorise(SessionLifecycle, T) is false the call fails with
\* PermissionDenied and leaves the registry, T's entitlements and T's scoped
\* sets included, as it was; if it is true, add_entitlement on a target session
\* succeeds and the target holds the capability.
C11_UnauthorisedDenied ==
  \A sym \in MutatingSymbols :
    \A req \in SessionRequests(registry, sym) :
      is_session(registry, req.session_id) =>
        LET P == session_at(registry, req.session_id)
            r == to_future(registry, arena, req)
        IN /\ ~authorise(P, "SessionLifecycle", req.target_id) =>
                /\ r.fut.err = "PermissionDenied"
                /\ r.registry = registry
           /\ ( /\ authorise(P, "SessionLifecycle", req.target_id)
                /\ is_session(registry, req.target_id)
                /\ sym = "session_add_entitlement" ) =>
                /\ r.fut.err = ""
                /\ req.capability \in session_at(r.registry, req.target_id).caps

\* A caller whose SessionLifecycle is narrowed to a child, beside a session
\* outside that scope, after the guest has been handed both the result of a
\* call that succeeded and the error of one that failed.
C11_Witness ==
  /\ \E P \in sessions_of(registry), T \in sessions_of(registry), U \in sessions_of(registry) :
       /\ "SessionLifecycle" \in session_at(registry, P).caps
       /\ T \in scope(session_at(registry, P), "SessionLifecycle")
       /\ ~authorise(session_at(registry, P), "SessionLifecycle", U)
  /\ \E s \in DOMAIN life : life[s] = "failed"
  /\ \E s \in DOMAIN life : life[s] = "consumed"

\* C12 for every caller: session::remove issued by session S on a target T
\* that S did not create fails with PermissionDenied and leaves T in the
\* registry with its entitlements intact, for every S, a bootstrap session
\* whose SessionLifecycle scope is unrestricted included.
C12_RemoveNonChildDenied ==
  \A req \in SessionRequests(registry, "session_remove") :
    ( /\ is_session(registry, req.session_id)
      /\ is_session(registry, req.target_id)
      /\ childOf[req.target_id] # req.session_id ) =>
      LET r == to_future(registry, arena, req) IN
      /\ r.fut.err = "PermissionDenied"
      /\ is_session(r.registry, req.target_id)
      /\ session_at(r.registry, req.target_id) = session_at(registry, req.target_id)

\* C12: session::remove issued by session S on target T fails with
\* PermissionDenied, leaving T in the registry with its entitlements intact,
\* exactly when S.authorise(SessionLifecycle, T) is false: S does not hold
\* SessionLifecycle, or its scoped set is not empty and lacks T.  A session whose
\* SessionLifecycle scope is unrestricted is authorised for every target, and
\* its remove of a session it did not create takes the target out of the
\* registry.
C12_RemoveOutsideScopeDenied ==
  \A req \in SessionRequests(registry, "session_remove") :
    (is_session(registry, req.session_id) /\ is_session(registry, req.target_id)) =>
      LET S == session_at(registry, req.session_id)
          r == to_future(registry, arena, req)
          denied == \/ "SessionLifecycle" \notin S.caps
                    \/ /\ scope(S, "SessionLifecycle") # {}
                       /\ req.target_id \notin scope(S, "SessionLifecycle")
      IN /\ r.fut.err = "PermissionDenied" <=> denied
         /\ denied => r.registry = registry
         /\ ~denied => ~is_session(r.registry, req.target_id)

\* A host-inserted session that no session created has been removed, beside a
\* caller whose narrowed SessionLifecycle scope leaves out a live session.
C12_Witness ==
  /\ \E T \in DOMAIN childOf :
       childOf[T] = -1 /\ T < 2 /\ ~is_session(registry, T)
  /\ \E S \in sessions_of(registry), U \in sessions_of(registry) :
       /\ scope(session_at(registry, S), "SessionLifecycle") # {}
       /\ U \notin scope(session_at(registry, S), "SessionLifecycle")
       /\ childOf[U] # S

C14_RemoveRevokesAllGrants ==
  \A req \in SessionRequests(registry, "session_remove") :
    (is_session(registry, req.session_id) /\ is_session(registry, req.target_id)) =>
      LET r == to_future(registry, arena, req) IN
      r.fut.err = "" =>
        /\ ~is_session(r.registry, req.target_id)
        /\ \A q \in sessions_of(r.registry), cap \in Capabilities :
             req.target_id \notin scope(session_at(r.registry, q), cap)

\* C15: add_entitlement and rm_entitlement are idempotent: the hostcall applied
\* twice leaves the registry as applying it once; adding a capability the
\* target holds keeps its scoped set and changes nothing; removing a capability
\* the target does not hold changes nothing.
C15_EntitlementIdempotent ==
  /\ \A S \in {session_at(registry, s) : s \in sessions_of(registry)}, c \in Capabilities :
       /\ add_entitlement(add_entitlement(S, c), c) = add_entitlement(S, c)
       /\ rm_entitlement(rm_entitlement(S, c), c) = rm_entitlement(S, c)
       /\ c \in S.caps => add_entitlement(S, c) = S
       /\ c \notin S.caps => rm_entitlement(S, c) = S
  /\ \A sym \in {"session_add_entitlement", "session_rm_entitlement"} :
       \A req \in SessionRequests(registry, sym) :
         LET r1 == to_future(registry, arena, req)
             r2 == to_future(r1.registry, arena, req)
             held == holds(registry, req.target_id, req.capability)
         IN /\ r2.registry = r1.registry
            /\ (sym = "session_add_entitlement" /\ held) => r1.registry = registry
            /\ ( /\ sym = "session_rm_entitlement" /\ is_session(registry, req.target_id)
                 /\ ~held ) => r1.registry = registry
            /\ (sym = "session_add_entitlement" /\ r1.fut.err = "") => r2.fut.err = ""

\* A session holding TimeRead narrowed to a resource, reached through a granted
\* add_entitlement and add_resource.
C15_Witness ==
  \E T \in sessions_of(registry) :
    /\ "TimeRead" \in session_at(registry, T).caps
    /\ scope(session_at(registry, T), "TimeRead") # {}
    /\ \E s \in DOMAIN life : life[s] = "consumed"

\* C16: add_resource and rm_resource report 1 exactly when the scoped set of
\* the capability changed and 0 otherwise; an add repeated reports 0, a remove
\* repeated reports 0, and rm_resource after an add_resource that changed the
\* set restores the session.
C16_ResourceChangeFlags ==
  \A sym \in {"session_add_resource", "session_rm_resource"} :
    \A req \in SessionRequests(registry, sym) :
      LET r1 == to_future(registry, arena, req)
          r2 == to_future(r1.registry, arena, req)
          T == req.target_id
          before == scope(session_at(registry, T), req.capability)
          after == scope(session_at(r1.registry, T), req.capability)
          undo == to_future(r1.registry, arena, [req EXCEPT !.sym = "session_rm_resource"])
      IN (r1.fut.err = "" /\ is_session(registry, T)) =>
           /\ r1.fut.out.tag = "U32" /\ r1.fut.out.a \in {0, 1}
           /\ r1.fut.out.a = 1 <=> after # before
           /\ r1.fut.out.a = 0 => r1.registry = registry
           /\ sym = "session_add_resource" =>
                after = IF r1.fut.out.a = 1 THEN before \cup {req.resource_id} ELSE before
           /\ sym = "session_rm_resource" => after = before \ {req.resource_id}
           /\ r2.fut.err = "" => r2.fut.out.a = 0 /\ r2.registry = r1.registry
           /\ (sym = "session_add_resource" /\ r1.fut.out.a = 1 /\ undo.fut.err = "") =>
                /\ undo.fut.out.a = 1
                /\ undo.registry = registry

\* A session whose TimeRead scope holds a resource: an add_resource that
\* reports 1 has acted, and rm_resource of it would report 1.
C16_Witness ==
  \E T \in sessions_of(registry), r \in DOMAIN registry.slots :
    /\ <<"TimeRead", r>> \in session_at(registry, T).scoped
    /\ \E s \in DOMAIN life : life[s] = "consumed" /\ delivered[s] = 1

\* C17: a session made by session::create starts with no entitlements: for
\* every capability c and target t, child.authorise(c, t) is false, whatever the
\* parent holds; a session gains a capability only through an add_entitlement
\* call whose caller's SessionLifecycle authorises it.
C17_ChildStartsEmpty ==
  /\ [](\A req \in SessionRequests(registry, "session_create") :
          LET r == to_future(registry, arena, req)
              c == r.fut.out.a
          IN (is_session(registry, req.session_id) /\ r.fut.err = "") =>
               /\ session_at(r.registry, c).caps = {}
               /\ session_at(r.registry, c).scoped = {}
               /\ \A cap \in Capabilities, t \in DOMAIN registry.slots :
                    ~authorise(session_at(r.registry, c), cap, t))
  /\ [][\A T \in DOMAIN registry.slots :
          LET old == IF is_session(registry, T) THEN session_at(registry, T).caps ELSE {}
              new == IF is_session(registry', T) THEN session_at(registry', T).caps ELSE {}
          IN new \ old # {} =>
               \E req \in SessionRequests(registry, "session_add_entitlement") :
                 /\ req.target_id = T
                 /\ is_session(registry, req.session_id)
                 /\ authorise(session_at(registry, req.session_id), "SessionLifecycle", T)
                 /\ new = old \cup {req.capability}]_vars

\* A child of a parent that holds SessionLifecycle, still without entitlements,
\* beside a child that an add_entitlement has given a capability.
C17_Witness ==
  \E c \in DOMAIN childOf, d \in DOMAIN childOf :
    /\ childOf[c] # -1 /\ childOf[d] # -1
    /\ is_session(registry, c) /\ is_session(registry, d)
    /\ is_session(registry, childOf[c])
    /\ session_at(registry, childOf[c]).caps # {}
    /\ session_at(registry, c).caps = {}
    /\ session_at(registry, d).caps # {}

\* ------------------------------------------------------------ amplification
\* C38, as stated: add_entitlement(P, T, c) succeeds only if P holds c itself,
\* and never with P as its own target.
C38_GranterHoldsCapability ==
  \A req \in SessionRequests(registry, "session_add_entitlement") :
    (is_session(registry, req.session_id)
       /\ to_future(registry, arena, req).fut.err = "") =>
      /\ holds(registry, req.session_id, req.capability)
      /\ req.session_id # req.target_id

\* C38, amended: add_entitlement(P, T, c) on a target session succeeds exactly
\* when P holds SessionLifecycle and its scope authorises T, whether or not P
\* holds c; with P as its own target it succeeds exactly when P's
\* SessionLifecycle scope is unrestricted or names P's own slot.
C38_GranterAuthorisesTarget ==
  \A req \in SessionRequests(registry, "session_add_entitlement") :
    (is_session(registry, req.session_id) /\ is_session(registry, req.target_id)) =>
      LET P == session_at(registry, req.session_id)
          r == to_future(registry, arena, req)
      IN /\ r.fut.err = "" <=> authorise(P, "SessionLifecycle", req.target_id)
         /\ req.session_id = req.target_id =>
              (r.fut.err = "" <=>
                 /\ "SessionLifecycle" \in P.caps
                 /\ \/ scope(P, "SessionLifecycle") = {}
                    \/ req.session_id \in scope(P, "SessionLifecycle"))

\* A child holds TimeRead, which the session that created it does not hold,
\* and the guest has been handed the result of a call that succeeded.
C38_Witness ==
  \E c \in DOMAIN childOf :
    /\ childOf[c] # -1
    /\ is_session(registry, c) /\ is_session(registry, childOf[c])
    /\ "TimeRead" \in session_at(registry, c).caps
    /\ "TimeRead" \notin session_at(registry, childOf[c]).caps
    /\ \E s \in DOMAIN life : life[s] = "consumed"

\* ------------------------------------------------------- authority of scope
\* C39: creating or removing a child changes no session's SessionLifecycle
\* authority over other targets: across a session::create or session::remove
\* that succeeds, every session that stays authorises SessionLifecycle on
\* exactly the other sessions it authorised before; so an unrestricted scope
\* stays unrestricted over a create, and a restricted one does not become
\* unrestricted when the removal of the last child empties the scoped set.
C39_LifecycleAuthorityStable ==
  \A sym \in {"session_create", "session_remove"} :
    \A req \in SessionRequests(registry, sym) :
      LET r == to_future(registry, arena, req)
          gone == IF sym = "session_remove" THEN {req.target_id} ELSE {}
      IN (is_session(registry, req.session_id) /\ r.fut.err = "") =>
           \A S \in sessions_of(registry) \ gone, u \in sessions_of(registry) \ gone :
             authorise(session_at(registry, S), "SessionLifecycle", u)
               <=> authorise(session_at(r.registry, S), "SessionLifecycle", u)

\* --------------------------------------------------------- create on failure
\* C40: session::create is atomic on failure: whenever the call returns an
\* error, the registry is as it was before the call: no session resource and
\* no slot has been added, and the scoped sets of the parent are unchanged.
C40_CreateAtomicOnFailure ==
  \A req \in SessionRequests(registry, "session_create") :
    LET r == to_future(registry, arena, req)
    IN r.fut.err # "" =>
         /\ sessions_of(r.registry) = sessions_of(registry)
         /\ r.registry.slots = registry.slots
         /\ r.registry.resources = registry.resources
         /\ r.registry.sessions = registry.sessions

\* ---------------------------------------------------------------- singletons
\* The ids a register can name: every resource id handed out so far and one
\* that was never handed out; likewise the shared handles.
known_rids == 0 .. registry.nextRid
known_handles == 0 .. registry.nextShared

\* C18 as stated: once a register of id has succeeded, every later register
\* with the same DependencyId fails with StableIdExists and singleton(id) still
\* returns the resource registered first; at most one register succeeds.
C18_DuplicateAlwaysExists ==
  \A id \in DependencyIds :
    /\ single.wins[id] <= 1
    /\ single.wins[id] = 1 =>
         /\ singleton(registry, id) = single.first[id]
         /\ \A rid \in known_rids :
              LET r == Singleton_register(registry, id, rid) IN
              r.err = "StableIdExists" /\ r.registry = registry
         /\ \A h \in known_handles :
              LET d == singleton_register_to_future(registry, arena, id, h) IN
              d.fut.err = "StableIdExists" /\ d.registry = registry

\* C18: singleton mappings are write-once.  Once a register of id has
\* succeeded, every later register with the same DependencyId fails and leaves
\* the registry as it was, with StableIdExists when the resource it names is
\* live and with NotFound when the resource (or the shared handle given to the
\* hostcall) does not resolve; singleton(id) still returns the resource
\* registered first, also after that resource is removed; under concurrent
\* register calls for the same id exactly one succeeds.
C18_WriteOnce ==
  \A id \in DependencyIds :
    /\ single.wins[id] <= 1
    /\ single.wins[id] = 1 <=> singleton(registry, id) # -1
    /\ singleton(registry, id) = single.first[id]
    /\ single.wins[id] = 1 =>
         /\ \A rid \in known_rids :
              LET r == Singleton_register(registry, id, rid) IN
              /\ r.err = IF metadata(registry, rid) THEN "StableIdExists" ELSE "NotFound"
              /\ r.registry = registry
         /\ \A h \in known_handles :
              LET d == singleton_register_to_future(registry, arena, id, h) IN
              /\ d.fut.err = IF metadata(registry, resolve_shared(registry, h))
                             THEN "StableIdExists" ELSE "NotFound"
              /\ d.registry = registry
    /\ single.wins[id] = 0 =>
         \A rid \in known_rids :
           metadata(registry, rid) => Singleton_register(registry, id, rid).err = ""

\* Two host threads raced for one id, both past the existence check: one has
\* won and the other was refused with StableIdExists.
C18_Witness ==
  \E c \in Callers, d \in Callers, id \in DependencyIds :
    /\ c # d
    /\ single.calls[c].pc = "done" /\ single.calls[c].err = ""
    /\ single.calls[d].pc = "done" /\ single.calls[d].err = "StableIdExists"
    /\ single.wins[id] = 1
    /\ \E rid \in known_rids : rid # single.first[id] /\ metadata(registry, rid)

\* C19: lookup(id) fails with NotFound exactly when id was never registered or
\* the resource it maps to has been removed from the registry; a lookup that
\* succeeds returns the registered resource, live at that moment; the hostcall
\* fails with NotFound in the same cases.
C19_LookupNotFound ==
  \A id \in DependencyIds :
    LET l == Singleton_lookup(registry, id)
        d == singleton_lookup_to_future(registry, arena, id)
        absent == single.wins[id] = 0 \/ ~metadata(registry, single.first[id])
    IN /\ l.err = "NotFound" <=> absent
       /\ l.err \in {"", "NotFound"}
       /\ l.err = "" => l.resource = single.first[id] /\ metadata(registry, l.resource)
       /\ d.fut.err = l.err
       /\ d.fut.err = "NotFound" => d.registry = registry

\* An id whose registered resource has been removed, beside a live resource,
\* after a lookup hostcall has failed.
C19_Witness ==
  \E id \in DependencyIds :
    /\ single.wins[id] = 1
    /\ ~metadata(registry, single.first[id])
    /\ \E rid \in known_rids : metadata(registry, rid) /\ registry.resources[rid].kind = "Other"
    /\ \E s \in DOMAIN life : life[s] = "failed"

\* C20: after register(id, shared handle of r) has succeeded, the
\* singleton::lookup hostcall for id returns a SharedId s with
\* resolve_shared(s) = r whenever r is live, and a repeated lookup returns the
\* same handle.
C20_LookupResolvesToRegistered ==
  \A id \in DependencyIds :
    (single.wins[id] = 1 /\ metadata(registry, single.first[id])) =>
      LET d == singleton_lookup_to_future(registry, arena, id)
          e == singleton_lookup_to_future(d.registry, arena, id)
      IN /\ d.fut.err = ""
         /\ d.fut.out.tag = "GuestResourceId"
         /\ resolve_shared(d.registry, d.fut.out.a) = single.first[id]
         /\ e.fut.err = "" /\ e.fut.out = d.fut.out /\ e.registry = d.registry

\* The register hostcall has succeeded for the second of two live resources,
\* whose shared handle differs from its resource id, and a lookup hostcall has
\* delivered its result.
C20_Witness ==
  \E id \in DependencyIds :
    /\ single.wins[id] = 1
    /\ metadata(registry, single.first[id])
    /\ alias_of(registry, single.first[id]) \notin {-1, single.first[id]}
    /\ \A c \in Callers : single.calls[c].pc = "idle"
    /\ Cardinality({s \in DOMAIN life : life[s] = "consumed"}) = 2

C24_CapacityChecked ==
  \A s \in HandleIds, t \in TaskIds, c \in Capacities :
    (future_state(registry, s) /\ has_result(shared[s]) /\ shared[s].ok) =>
      LET h == poll_hook(registry, shared, mailbox, s, t, c) IN
      IF c < Len(shared[s].bytes)
      THEN h.status.kind = "error" /\ ~h.buf.written
      ELSE /\ h.status = Status("ready", Len(shared[s].bytes), "")
           /\ h.buf.written /\ h.buf.bytes = shared[s].bytes

\* ------------------------------------------------------------ shared handles
\* C21: a SharedId minted by share_handle(r) resolves to r for as long as r
\* is live and to nothing once r has been removed; it never resolves to
\* another resource, also after new resources are added and shared; the
\* handle in the descriptor of shm::alloc resolves to the resource under the
\* descriptor's slot.
C21_AliasStable ==
  /\ [](\A s \in DOMAIN registry.aliases :
          /\ resolve_shared(registry, s) # -1 =>
               s < registry.nextShared /\ metadata(registry, resolve_shared(registry, s))
          /\ \A sz \in 1 .. ArenaBytes :
               LET d == shm_alloc_to_future(registry, arena, sz, 1) IN
               d.fut.err = "" =>
                 /\ resolve_shared(d.registry, d.fut.out.b) = entry(d.registry, d.fut.out.a)
                 /\ resolve_shared(registry, d.fut.out.b) = -1)
  /\ [][\A s \in DOMAIN registry.aliases :
          /\ resolve_shared(registry, s) # -1 =>
               resolve_shared(registry', s) =
                 IF metadata(registry', resolve_shared(registry, s))
                 THEN resolve_shared(registry, s) ELSE -1
          /\ (s < registry.nextShared /\ resolve_shared(registry, s) = -1) =>
               resolve_shared(registry', s) = -1]_vars

\* A handle whose resource was removed resolves to nothing, while a resource
\* added later has been shared under another handle.
C21_Witness ==
  \E s \in DOMAIN registry.aliases, u \in DOMAIN registry.aliases :
    /\ s < u /\ u < registry.nextShared
    /\ resolve_shared(registry, s) = -1
    /\ resolve_shared(registry, u) # -1
    /\ single.added = MaxResources

\* ------------------------------------------------------- arena allocation
\* The alloc requests a guest may make, split by their arguments.
AllocRequests == ShmRequests(registry, "shm_alloc")
invalid_alloc(req) == req.size = 0 \/ req.align \notin {1, 2, 4, 8}

\* The least multiple of align that is not below mark.
aligned_mark(mark, align) ==
  CHOOSE m \in mark .. (mark + align) : m % align = 0 /\ m - mark < align

\* C25: shm alloc with size 0, or with align 0 or not a power of two, returns
\* InvalidArgument and leaves the arena as it was: the same high-water mark, the
\* same allocations.
C25_InvalidAllocRejected ==
  [][\A req \in AllocRequests :
       (invalid_alloc(req) /\ ShmCall(req)) =>
         /\ host'.call.err = "InvalidArgument"
         /\ arena'.next_offset = arena.next_offset
         /\ arena'.allocations = arena.allocations]_vars

\* An alloc with a size and an alignment of three was rejected by an arena that
\* holds a region.
C25_Witness ==
  /\ host.call.req.sym = "shm_alloc"
  /\ host.call.req.size > 0
  /\ host.call.req.align = 3
  /\ host.call.err = "InvalidArgument"
  /\ arena.allocations # {}

\* C26: shm alloc with valid arguments returns WouldBlock exactly when the
\* aligned high-water mark plus the size is beyond the capacity, and then the
\* mark and the allocations stay as they were; otherwise it succeeds.  The mark
\* is never beyond the capacity.
C26_WouldBlockIffFull ==
  /\ [](arena.next_offset <= ArenaBytes)
  /\ [][\A req \in AllocRequests :
          (~invalid_alloc(req) /\ ShmCall(req)) =>
            IF aligned_mark(arena.next_offset, req.align) + req.size > ArenaBytes
            THEN /\ host'.call.err = "WouldBlock"
                 /\ arena'.next_offset = arena.next_offset
                 /\ arena'.allocations = arena.allocations
            ELSE host'.call.err = ""]_vars

\* An alloc of two bytes aligned to two found the mark at one and was turned
\* away, though the two bytes would have fitted unaligned.
C26_Witness ==
  /\ host.call.req.sym = "shm_alloc"
  /\ host.call.req.size = 2
  /\ host.call.req.align = 2
  /\ host.call.err = "WouldBlock"
  /\ arena.next_offset = 1

\* C27: a successful shm alloc(size, align) returns a region whose offset is a
\* multiple of align and whose len is size; every byte of it reads as zero; the
\* high-water mark is then offset + size.
C27_AllocAlignedZeroed ==
  [][\A req \in AllocRequests :
       (ShmCall(req) /\ host'.call.err = "") =>
         LET region == [offset |-> host'.call.offset, len |-> host'.call.len] IN
         /\ region.offset % req.align = 0
         /\ region.len = req.size
         /\ read(arena', region, 0, region.len) =
              [err |-> "", bytes |-> [i \in 1 .. req.size |-> 0]]
         /\ arena'.next_offset = region.offset + req.size]_vars

\* The second region of an arena, placed at offset two after one byte of
\* padding.
C27_Witness ==
  /\ host.call.req.sym = "shm_alloc"
  /\ host.call.req.align = 2
  /\ host.call.err = ""
  /\ host.call.offset = 2
  /\ Cardinality(arena.allocations) = 2

\* ------------------------------------------------------- read after write
\* C28: a read of an allocated region returns, for every in-bounds offset and
\* length, the bytes of the latest writes to those positions and zero where
\* none was made; a write changes the bytes of no region but its own; reads and
\* writes are serialised, so that no read returns a write in part.
C28_ReadAfterWrite ==
  /\ [](host.seen.got = host.seen.want)
  /\ [](host.lock = 0 =>
          \A a \in arena.allocations, offset \in 0 .. ArenaBytes, len \in 0 .. ArenaBytes :
            offset + len <= a.len =>
              read(arena, [offset |-> a.offset, len |-> a.len], offset, len) =
                [ err |-> "",
                  bytes |-> SubSeq(host.shadow[a.offset], offset + 1, offset + len) ])
  /\ [][Cardinality(arena.allocations \ arena'.allocations) <= 1]_vars

\* The guest read two bytes of a region after two writes of the other thread,
\* the second over the last byte of the first, while a second region held its
\* zeros.
C28_Witness ==
  /\ host.call.req.sym = "shm_read"
  /\ host.call.err = ""
  /\ host.seen.got = <<2, 1>>
  /\ \E a \in arena.allocations : a.bytes = <<0>>

\* ---------------------------------------------------------------- processes
\* C22: every slot of an instance table, the caller's and those of the
\* processes it started, resolves to a resource id that is live in the
\* process-wide registry, also after a resource registered in one instance was
\* removed through another.
C22_SlotsResolveLive ==
  /\ \A s \in DOMAIN registry.slots :
       registry.slots[s].kind # "None" => metadata(registry, registry.slots[s].rid)
  /\ \A p \in DOMAIN host.children :
       host.children[p] # -1 => metadata(registry, host.children[p])

\* C29: when the engine's start fails after the process id was reserved, the
\* reservation is gone by the time the error is returned: no metadata for the
\* id, and the registry holds the resources it held before the call.
C29_StartRollback ==
  /\ [](host.start.pc = "failed" =>
          /\ ~metadata(registry, host.start.process_id)
          /\ host.stops[host.start.process_id] = 0)
  /\ [][(host.start.pc = "starting" /\ host'.start.pc = "failed") =>
          /\ metadata(registry, host.start.process_id)
          /\ ~shared'[host.start.slot].ok
          /\ registry'.resources = host.start.before]_vars

\* A start failed while an earlier process was running.
C29_Witness ==
  /\ host.start.pc = "failed"
  /\ shared[host.start.slot].err = "Subsystem"
  /\ \E p \in DOMAIN registry.resources : registry.resources[p].kind = "Process"

\* C30: process::stop of a live resource that is no process fails with
\* InvalidArgument, leaves the resource in the registry and makes no call of
\* the engine's stop; of a process, it removes the resource and calls the
\* engine's stop once, whatever that returns, and a later stop of the same
\* handle returns NotFound.
C30_StopChecksKind ==
  /\ [](\A p \in DOMAIN host.stops : host.stops[p] <= 1)
  /\ [][\A s \in DOMAIN tasks :
          (tasks[s].fut.kind = "process_stop" /\ tasks[s].pc = "spawned"
             /\ tasks'[s].pc = "done") =>
            LET handle == tasks[s].fut.out.a IN
            CASE ~metadata(registry, handle) ->
                   /\ shared'[s].err = "NotFound"
                   /\ registry' = registry
                   /\ host'.stops = host.stops
              [] metadata(registry, handle) /\ registry.resources[handle].kind # "Process" ->
                   /\ shared'[s].err = "InvalidArgument"
                   /\ registry' = registry
                   /\ host'.stops = host.stops
              [] OTHER ->
                   /\ shared'[s].err \in {"", "Subsystem"}
                   /\ ~metadata(registry', handle)
                   /\ host'.stops = [host.stops EXCEPT ![handle] = 1]]_vars

\* A process was stopped, and a second stop of its handle found nothing, while
\* the root session is where it was.
C30_Witness ==
  /\ host.stop.handle # -1
  /\ host.stop.err = "NotFound"
  /\ host.stops[host.stop.handle] = 1
  /\ is_session(registry, 0)

====
